---- MODULE Spec2Model ----
(***************************************************************************)
(* Journal posting, period locking and FX-rate locking of the partnership  *)
(* accounting backend (server/src/handlers).                               *)
(*                                                                         *)
(* The store is the relational database the handlers read and write with   *)
(* one statement at a time (no handler opens a transaction).  Spec runs    *)
(* every journal and period handler call as one step, SpecFx every FX-rate *)
(* handler call as one step, and SpecC runs the journal and period         *)
(* handlers statement by statement in concurrent requests.  A call that    *)
(* throws writes nothing; what it throws is given by the handler's Error   *)
(* operator.                                                               *)
(*                                                                         *)
(* Units: stored money is numeric(15,2), kept here in whole cents; money   *)
(* in a request is a JS number, kept here in tenths of a cent.  Columns    *)
(* that no handler reads back for a decision (reference, description,      *)
(* transaction_date, created_by, created_at, updated_at; a line's          *)
(* account_id, partner_id, employee_id and fx_rate) are left out of the    *)
(* rows; the checks made on them before the insert are kept.               *)
(***************************************************************************)
EXTENDS Integers, Sequences, FiniteSets, TLC

VARIABLES
    periods,       \* periodsTable: sequence of rows, id = index (serial)
    journals,      \* journalsTable: sequence of rows, id = index (serial)
    journalLines,  \* journal_lines: set of rows, each with its serial id
    lineSeq,       \* last value of the journal_lines id sequence
    fxRates,       \* fxRatesTable: sequence of rows, id = index (serial)
    capitalMovements, \* capitalMovementsTable: sequence of rows, id = index
    calls,         \* requests in flight: one record per request slot
    returned       \* what the queries called so far returned

vars ==
    <<periods, journals, journalLines, lineSeq, fxRates, capitalMovements,
      calls, returned>>

store ==
    <<periods, journals, journalLines, lineSeq, fxRates, capitalMovements>>

----------------------------------------------------------------------------
(* Bounds of the model *)

MaxPeriods == 2
MaxJournals == 2
MaxLines == 2
MaxRates == 2
MaxCalls == 2
MaxMovements == 2
MaxAllRows == 1
MaxReturned == 2
MaxBalances == 1

(* SQL NULL, JS null and undefined; serial ids start at 1 *)
Null == 0

(* Rows of the collaborator tables, and the ids a request may carry *)
Users == {1}
UserIds == Users \cup {2}
Accounts == {1}
AccountIds == Accounts \cup {2}
Partners == {1}
PartnerIds == {Null} \cup Partners \cup {2}
Employees == {1}
EmployeeIds == {Null} \cup Employees \cup {2}

Years == {2024}
Months == {1, 2}

(* Request amounts, in tenths of a cent: 0 and 0.01 *)
AmountInputs == {0, 10}

(* Request instants, in half days since the first day *)
DateInputs == 0..5

(* Request rates, in hundred-thousandths: 278.5, 280 and 280.00004 *)
RateInputs == {27850000, 28000000, 28000004}

(* Request amounts of a capital movement, in tenths of a cent: 0.01 *)
CapitalAmountInputs == {10}

(* Request amounts of the capital movements whose conversion and balances
   are examined, in tenths of a cent: 0.01 and 0.09 *)
ConvertedAmountInputs == {10, 90}

(* An optional field left out of a request *)
Undefined == "undefined"

(* An optional date left out of a request *)
NoDate == -1

----------------------------------------------------------------------------
(* numeric(15,2): the store rounds a written value to two decimals,
   half away from zero; the result is in cents *)
ToNumeric2(x) == (x + 5) \div 10

(* numeric(10,4): likewise to four decimals; the result is in
   ten-thousandths *)
ToNumeric4(x) == (x + 5) \div 10

(* formatDateForDB: the UTC calendar day of an instant *)
formatDateForDB(date) == date \div 2

RateIds == 1..Len(fxRates)
RateIdInputs == 1..MaxRates

(* What a call reports: OK, or the message of the error it throws *)
OK == "ok"

PeriodIds == 1..Len(periods)
JournalIds == 1..Len(journals)

(* Ids a request may name: rows that exist and rows that do not *)
PeriodIdInputs == 1..MaxPeriods
JournalIdInputs == 1..MaxJournals
LineIdInputs == 1..MaxLines

LinesOf(journalId) == {l \in journalLines : l.journal_id = journalId}

(* A validation error: its kind and the values its message carries *)
Err(kind, args) == [kind |-> kind, args |-> args]

----------------------------------------------------------------------------
(* IEEE-754 binary64 as the handlers use it on money.  A double x that is
   0 or at least 0.01 and below 0.25 is a whole multiple of 2^-59; it is
   kept as <<c, r>> with x = (c*F64K + r) * 2^-59, c the amount in cents
   and F64K = 5764607523034235 = (2^59 + 12) / 100.  Only F64K modulo 32
   is needed to round. *)
F64KMod32 == 27

(* Units of 2^-59 in one ulp of the binade that holds c cents *)
F64Ulp(c) ==
    IF c <= 1 THEN 1 ELSE IF c <= 3 THEN 2 ELSE IF c <= 6 THEN 4
    ELSE IF c <= 12 THEN 8 ELSE 16

(* parseFloat of the stored decimal string of c cents: c/100 rounded to
   the nearest double *)
parseFloat(c) ==
    LET U == F64Ulp(c)
        m == (c * F64KMod32) % U
        t == 100 * m - 12 * c
        q == (t + 50 * U) \div (100 * U)
    IN  <<c, q * U - m>>

(* a + b in binary64, round to nearest, ties to even *)
F64Add(a, b) ==
    LET c == a[1] + b[1]
        r == a[2] + b[2]
        U == F64Ulp(c)
        m == (c * F64KMod32 + r) % U
        down == <<c, r - m>>
        up == <<c, r + U - m>>
    IN  IF m = 0 THEN <<c, r>>
        ELSE IF 2 * m < U THEN down
        ELSE IF 2 * m > U THEN up
        ELSE IF (c * F64KMod32 + r - m) % (2 * U) = 0 THEN down
        ELSE up

(* Math.abs(a - b) > 0.01 in binary64; 0.01 is <<1, 0>> and a difference
   below 2^-6 is exact *)
ExceedsTolerance(a, b) ==
    LET d == a[1] - b[1]
    IN  IF d >= 2 \/ d <= -2 THEN TRUE
        ELSE IF d = 1 THEN a[2] - b[2] > parseFloat(1)[2]
        ELSE IF d = -1 THEN b[2] - a[2] > parseFloat(1)[2]
        ELSE FALSE

(* -a *)
F64Neg(a) == <<-a[1], -a[2]>>

(* a + b in binary64 for operands of either sign; rounding is symmetric
   in the sign *)
F64Sum(a, b) ==
    LET c == a[1] + b[1]
        r == a[2] + b[2]
    IN  IF c < 0 \/ (c = 0 /\ r < 0)
          THEN F64Neg(F64Add(F64Neg(a), F64Neg(b)))
        ELSE F64Add(a, b)

----------------------------------------------------------------------------
(* Rows in the order the select returns them: by id *)
RECURSIVE RowOrder(_)
RowOrder(rows) ==
    IF rows = {} THEN <<>>
    ELSE LET first == CHOOSE l \in rows : \A k \in rows : l.id <= k.id
         IN  <<first>> \o RowOrder(rows \ {first})

RECURSIVE SumF64(_, _)
SumF64(seq, field) ==
    IF seq = <<>> THEN <<0, 0>>
    ELSE F64Add(SumF64(SubSeq(seq, 1, Len(seq) - 1), field),
                parseFloat(seq[Len(seq)][field]))

(* The per-line errors of validateJournal's forEach *)
RECURSIVE LineErrors(_)
LineErrors(seq) ==
    IF seq = <<>> THEN <<>>
    ELSE LET line == seq[1]
             debit == parseFloat(line.debit_amount)
             credit == parseFloat(line.credit_amount)
             here == IF debit[1] > 0 /\ credit[1] > 0
                       THEN <<Err("both debit and credit", <<line.id>>)>>
                     ELSE IF debit[1] = 0 /\ credit[1] = 0
                       THEN <<Err("neither debit nor credit", <<line.id>>)>>
                     ELSE <<>>
         IN  here \o LineErrors(Tail(seq))

(* validateJournal without its base-currency comparison *)
validateLines_NoBaseCheck(rows) ==
    IF rows = {} THEN <<Err("Journal has no lines", <<>>)>>
    ELSE LET lines == RowOrder(rows)
             totalDebits == SumF64(lines, "debit_amount")
             totalCredits == SumF64(lines, "credit_amount")
         IN  LineErrors(lines)
             \o (IF ExceedsTolerance(totalDebits, totalCredits)
                   THEN <<Err("debits do not equal credits",
                              <<totalDebits[1], totalCredits[1]>>)>>
                   ELSE <<>>)

(* validateJournal on the rows its select returned *)
validateLines(rows) ==
    IF rows = {} THEN <<Err("Journal has no lines", <<>>)>>
    ELSE LET lines == RowOrder(rows)
             totalDebits == SumF64(lines, "debit_amount")
             totalCredits == SumF64(lines, "credit_amount")
             totalDebitsBase == SumF64(lines, "debit_amount_base")
             totalCreditsBase == SumF64(lines, "credit_amount_base")
         IN  LineErrors(lines)
             \o (IF ExceedsTolerance(totalDebits, totalCredits)
                   THEN <<Err("debits do not equal credits",
                              <<totalDebits[1], totalCredits[1]>>)>>
                   ELSE <<>>)
             \o (IF ExceedsTolerance(totalDebitsBase, totalCreditsBase)
                   THEN <<Err("base debits do not equal base credits",
                              <<totalDebitsBase[1], totalCreditsBase[1]>>)>>
                   ELSE <<>>)

validateJournal(journalId) == validateLines(LinesOf(journalId))

(* validatePeriodClose without its count of DRAFT journals *)
validateClose_NoDraftCheck(periodRows, draftJournals) ==
    IF periodRows = {} THEN <<Err("Period not found", <<>>)>>
    ELSE IF \E p \in periodRows : p.status = "LOCKED"
      THEN <<Err("Period is already locked", <<>>)>>
    ELSE <<>>

(* validatePeriodClose without its check of the period's status *)
validateClose_NoLockedCheck(periodRows, draftJournals) ==
    IF periodRows = {} THEN <<Err("Period not found", <<>>)>>
    ELSE IF Cardinality(draftJournals) > 0
      THEN <<Err("draft journals", <<Cardinality(draftJournals)>>)>>
    ELSE <<>>

(* validatePeriodClose on the rows its selects returned: the period rows
   with that id and the DRAFT journals of the period *)
validateClose(periodRows, draftJournals) ==
    IF periodRows = {} THEN <<Err("Period not found", <<>>)>>
    ELSE IF \E p \in periodRows : p.status = "LOCKED"
      THEN <<Err("Period is already locked", <<>>)>>
    ELSE IF Cardinality(draftJournals) > 0
      THEN <<Err("draft journals", <<Cardinality(draftJournals)>>)>>
    ELSE <<>>

PeriodRows(periodId) ==
    IF periodId \in PeriodIds THEN {periods[periodId]} ELSE {}

DraftJournalsOf(periodId) ==
    {j \in JournalIds : journals[j].period_id = periodId
                        /\ journals[j].status = "DRAFT"}

validatePeriodClose(periodId) ==
    validateClose(PeriodRows(periodId), DraftJournalsOf(periodId))

----------------------------------------------------------------------------
Init ==
    /\ periods = <<>>
    /\ journals = <<>>
    /\ journalLines = {}
    /\ lineSeq = 0
    /\ fxRates = <<>>
    /\ capitalMovements = <<>>
    /\ calls = <<>>
    /\ returned = <<>>

(* The rows the handlers write *)
NewPeriod(year, month) ==
    [year |-> year, month |-> month, status |-> "OPEN",
     locked_at |-> Null, locked_by |-> Null]

NewJournal(period_id) ==
    [period_id |-> period_id, status |-> "DRAFT", posted_at |-> Null,
     posted_by |-> Null]

NewLine(id, input) ==
    [id |-> id,
     journal_id |-> input.journal_id,
     debit_amount |-> ToNumeric2(input.debit_amount),
     credit_amount |-> ToNumeric2(input.credit_amount),
     debit_amount_base |-> ToNumeric2(input.debit_amount_base),
     credit_amount_base |-> ToNumeric2(input.credit_amount_base)]

(* new Date(): a timestamp column holds how many times its row was
   stamped, so that a later write stores a later time *)
NewDate(stored) == stored + 1

(* The update of postJournal setting the status alone *)
PostedRow_StatusOnly(row, posted_by) == [row EXCEPT !.status = "POSTED"]

PostedRow(row, posted_by) ==
    [row EXCEPT !.status = "POSTED", !.posted_at = NewDate(@),
                !.posted_by = posted_by]

LockedRow(row, locked_by) ==
    [row EXCEPT !.status = "LOCKED", !.locked_at = NewDate(@),
                !.locked_by = locked_by]

(* A createJournalLineInput: the rows it refers to and its amounts *)
LineRefs ==
    [journal_id : JournalIdInputs, account_id : AccountIds,
     partner_id : PartnerIds, employee_id : EmployeeIds]

LineAmounts ==
    [debit_amount : AmountInputs, credit_amount : AmountInputs,
     debit_amount_base : AmountInputs, credit_amount_base : AmountInputs]

NoAmounts ==
    [debit_amount |-> 0, credit_amount |-> 0,
     debit_amount_base |-> 0, credit_amount_base |-> 0]

LineInput(refs, amounts) ==
    [journal_id |-> refs.journal_id, account_id |-> refs.account_id,
     partner_id |-> refs.partner_id, employee_id |-> refs.employee_id,
     debit_amount |-> amounts.debit_amount,
     credit_amount |-> amounts.credit_amount,
     debit_amount_base |-> amounts.debit_amount_base,
     credit_amount_base |-> amounts.credit_amount_base]

----------------------------------------------------------------------------
(* period_handlers.ts, each call as one step *)

createPeriodError(year, month) ==
    IF \E p \in PeriodIds : periods[p].year = year /\ periods[p].month = month
    THEN "Period already exists"
    ELSE OK

createPeriod(year, month) ==
    IF createPeriodError(year, month) # OK
      THEN UNCHANGED vars
    ELSE /\ Len(periods) < MaxPeriods
         /\ periods' = Append(periods, NewPeriod(year, month))
         /\ UNCHANGED <<journals, journalLines, lineSeq, fxRates, calls,
                     capitalMovements, returned>>

(* lockPeriod with its select of the user ahead of validatePeriodClose *)
lockPeriodError_UserFirst(id, locked_by) ==
    IF id \notin PeriodIds THEN "Cannot lock period"
    ELSE IF locked_by \notin Users THEN "Invalid user ID for locking period"
    ELSE IF validatePeriodClose(id) # <<>> THEN "Cannot lock period"
    ELSE OK

lockPeriodError(id, locked_by) ==
    IF validatePeriodClose(id) # <<>> THEN "Cannot lock period"
    ELSE IF locked_by \notin Users THEN "Invalid user ID for locking period"
    ELSE OK

(* lockPeriod with its update moved ahead of its checks *)
lockPeriod_UpdateFirst(id, locked_by) ==
    IF id \notin PeriodIds
      THEN UNCHANGED vars
    ELSE /\ periods' = [periods EXCEPT ![id] = LockedRow(@, locked_by)]
         /\ UNCHANGED <<journals, journalLines, lineSeq, fxRates, calls,
                        capitalMovements, returned>>

lockPeriod(id, locked_by) ==
    IF lockPeriodError(id, locked_by) # OK
      THEN UNCHANGED vars
    ELSE /\ periods' = [periods EXCEPT ![id] = LockedRow(@, locked_by)]
         /\ UNCHANGED <<journals, journalLines, lineSeq, fxRates, calls,
                     capitalMovements, returned>>

----------------------------------------------------------------------------
(* journal_handlers.ts, each call as one step *)

(* createJournal with its select of the user ahead of the period checks *)
createJournalError_UserFirst(period_id, created_by) ==
    IF created_by \notin Users THEN "User not found"
    ELSE IF period_id \notin PeriodIds THEN "Period not found"
    ELSE IF periods[period_id].status = "LOCKED"
      THEN "Cannot create journal in locked period"
    ELSE OK

(* createJournal without its check of the period's status *)
createJournalError_NoLockedCheck(period_id, created_by) ==
    IF period_id \notin PeriodIds THEN "Period not found"
    ELSE IF created_by \notin Users THEN "User not found"
    ELSE OK

createJournalError(period_id, created_by) ==
    IF period_id \notin PeriodIds THEN "Period not found"
    ELSE IF periods[period_id].status = "LOCKED"
      THEN "Cannot create journal in locked period"
    ELSE IF created_by \notin Users THEN "User not found"
    ELSE OK

createJournal(period_id, created_by) ==
    IF createJournalError(period_id, created_by) # OK
      THEN UNCHANGED vars
    ELSE /\ Len(journals) < MaxJournals
         /\ journals' = Append(journals, NewJournal(period_id))
         /\ UNCHANGED <<periods, journalLines, lineSeq, fxRates, calls,
                     capitalMovements, returned>>

(* addJournalLine without its check of the journal's status *)
addJournalLineError_NoStatusCheck(input) ==
    IF input.journal_id \notin JournalIds THEN "Journal not found"
    ELSE IF input.account_id \notin Accounts THEN "Account not found"
    ELSE IF input.partner_id # Null /\ input.partner_id \notin Partners
      THEN "Partner not found"
    ELSE IF input.employee_id # Null /\ input.employee_id \notin Employees
      THEN "Employee not found"
    ELSE OK

(* addJournalLine with its select of the partner ahead of the account's *)
addJournalLineError_PartnerFirst(input) ==
    IF input.journal_id \notin JournalIds THEN "Journal not found"
    ELSE IF journals[input.journal_id].status = "POSTED"
      THEN "Cannot modify posted journal"
    ELSE IF input.partner_id # Null /\ input.partner_id \notin Partners
      THEN "Partner not found"
    ELSE IF input.account_id \notin Accounts THEN "Account not found"
    ELSE IF input.employee_id # Null /\ input.employee_id \notin Employees
      THEN "Employee not found"
    ELSE OK

addJournalLineError(input) ==
    IF input.journal_id \notin JournalIds THEN "Journal not found"
    ELSE IF journals[input.journal_id].status = "POSTED"
      THEN "Cannot modify posted journal"
    ELSE IF input.account_id \notin Accounts THEN "Account not found"
    ELSE IF input.partner_id # Null /\ input.partner_id \notin Partners
      THEN "Partner not found"
    ELSE IF input.employee_id # Null /\ input.employee_id \notin Employees
      THEN "Employee not found"
    ELSE OK

addJournalLine(input) ==
    IF addJournalLineError(input) # OK
      THEN UNCHANGED vars
    ELSE /\ lineSeq < MaxLines
         /\ lineSeq' = lineSeq + 1
         /\ journalLines' = journalLines \cup {NewLine(lineSeq', input)}
         /\ UNCHANGED <<periods, journals, fxRates, calls,
                     capitalMovements, returned>>

(* The journal of a stored line *)
JournalOfLine(lineId) ==
    (CHOOSE l \in journalLines : l.id = lineId).journal_id

deleteJournalLineError(lineId) ==
    IF \A l \in journalLines : l.id # lineId THEN "Journal line not found"
    ELSE IF JournalOfLine(lineId) \notin JournalIds
      THEN "Associated journal not found"
    ELSE IF journals[JournalOfLine(lineId)].status = "POSTED"
      THEN "Cannot delete line from posted journal"
    ELSE OK

(* deleteJournalLine with a delete that selects by the line's journal *)
deleteJournalLine_ByJournal(lineId) ==
    IF deleteJournalLineError(lineId) # OK
      THEN UNCHANGED vars
    ELSE /\ journalLines' = {l \in journalLines :
                                l.journal_id # JournalOfLine(lineId)}
         /\ UNCHANGED <<periods, journals, lineSeq, fxRates, calls,
                        capitalMovements, returned>>

deleteJournalLine(lineId) ==
    IF deleteJournalLineError(lineId) # OK
      THEN UNCHANGED vars
    ELSE /\ journalLines' = {l \in journalLines : l.id # lineId}
         /\ UNCHANGED <<periods, journals, lineSeq, fxRates, calls,
                     capitalMovements, returned>>

(* postJournal without its select of the user *)
postJournalError_NoUserCheck(id, posted_by) ==
    IF id \notin JournalIds THEN "Journal not found"
    ELSE IF journals[id].status = "POSTED" THEN "Journal already posted"
    ELSE IF \/ journals[id].period_id \notin PeriodIds
            \/ periods[journals[id].period_id].status = "LOCKED"
      THEN "Cannot post journal in locked period"
    ELSE IF validateJournal(id) # <<>> THEN "Journal validation failed"
    ELSE OK

postJournalError(id, posted_by) ==
    IF id \notin JournalIds THEN "Journal not found"
    ELSE IF journals[id].status = "POSTED" THEN "Journal already posted"
    ELSE IF \/ journals[id].period_id \notin PeriodIds
            \/ periods[journals[id].period_id].status = "LOCKED"
      THEN "Cannot post journal in locked period"
    ELSE IF validateJournal(id) # <<>> THEN "Journal validation failed"
    ELSE IF posted_by \notin Users THEN "User not found"
    ELSE OK

(* postJournal with validateJournal called ahead of the period select *)
postJournalThrown_ValidateFirst(id, posted_by) ==
    LET message ==
            IF id \notin JournalIds THEN "Journal not found"
            ELSE IF journals[id].status = "POSTED" THEN "Journal already posted"
            ELSE IF validateJournal(id) # <<>> THEN "Journal validation failed"
            ELSE IF \/ journals[id].period_id \notin PeriodIds
                    \/ periods[journals[id].period_id].status = "LOCKED"
              THEN "Cannot post journal in locked period"
            ELSE IF posted_by \notin Users THEN "User not found"
            ELSE OK
    IN  [message |-> message,
         errors |-> IF message = "Journal validation failed"
                      THEN validateJournal(id) ELSE <<>>]

(* What postJournal throws: the message and, behind 'Journal validation
   failed: ', the joined validation.errors *)
postJournalThrown(id, posted_by) ==
    [message |-> postJournalError(id, posted_by),
     errors |-> IF postJournalError(id, posted_by) = "Journal validation failed"
                  THEN validateJournal(id) ELSE <<>>]

postJournal(id, posted_by) ==
    IF postJournalError(id, posted_by) # OK
      THEN UNCHANGED vars
    ELSE /\ journals' = [journals EXCEPT ![id] = PostedRow(@, posted_by)]
         /\ UNCHANGED <<periods, journalLines, lineSeq, fxRates, calls,
                     capitalMovements, returned>>

----------------------------------------------------------------------------
CreatePeriod == \E year \in Years, month \in Months : createPeriod(year, month)

LockPeriod == \E id \in PeriodIdInputs, locked_by \in UserIds : lockPeriod(id, locked_by)

CreateJournal ==
    \E period_id \in PeriodIdInputs, created_by \in UserIds :
        createJournal(period_id, created_by)

(* The amounts of a request that is rejected for its references play no
   part in the outcome: such a request is drawn with one choice of them *)
AddJournalLine ==
    \E refs \in LineRefs :
        \E amounts \in (IF addJournalLineError(LineInput(refs, NoAmounts)) = OK
                          THEN LineAmounts ELSE {NoAmounts}) :
            addJournalLine(LineInput(refs, amounts))

DeleteJournalLine == \E lineId \in LineIdInputs : deleteJournalLine(lineId)

PostJournal == \E id \in JournalIdInputs, posted_by \in UserIds : postJournal(id, posted_by)

Next ==
    \/ CreatePeriod
    \/ LockPeriod
    \/ CreateJournal
    \/ AddJournalLine
    \/ DeleteJournalLine
    \/ PostJournal

Spec == Init /\ [][Next]_vars

----------------------------------------------------------------------------
(* fx_handlers: setFxRate and lockFxRate, each call as one step *)

NewFxRate(dateStr, usd_to_pkr_rate) ==
    [date |-> dateStr, usd_to_pkr_rate |-> ToNumeric4(usd_to_pkr_rate),
     is_locked |-> FALSE]

(* The rows setFxRate's select returns for a date *)
RatesOn(dateStr) == {r \in RateIds : fxRates[r].date = dateStr}

(* The dates and values of the stored rates *)
StoredRates ==
    [r \in RateIds |-> [date |-> fxRates[r].date,
                        usd_to_pkr_rate |-> fxRates[r].usd_to_pkr_rate]]

(* setFxRate without its check of is_locked *)
setFxRateError_NoLockCheck(input) == OK

setFxRateError(input) ==
    IF /\ RatesOn(formatDateForDB(input.date)) # {}
       /\ fxRates[CHOOSE r \in RatesOn(formatDateForDB(input.date)) : TRUE].is_locked
    THEN "Cannot update locked FX rate"
    ELSE OK

setFxRate(input) ==
    LET dateStr == formatDateForDB(input.date)
    IN  IF setFxRateError(input) # OK
          THEN UNCHANGED vars
        ELSE IF RatesOn(dateStr) # {}
          THEN LET existingRate == CHOOSE r \in RatesOn(dateStr) : TRUE
               IN  /\ fxRates' = [fxRates EXCEPT ![existingRate].usd_to_pkr_rate =
                                      ToNumeric4(input.usd_to_pkr_rate)]
                   /\ UNCHANGED <<periods, journals, journalLines, lineSeq, calls,
                     capitalMovements, returned>>
        ELSE /\ Len(fxRates) < MaxRates
             /\ fxRates' = Append(fxRates, NewFxRate(dateStr, input.usd_to_pkr_rate))
             /\ UNCHANGED <<periods, journals, journalLines, lineSeq, calls,
                     capitalMovements, returned>>

lockFxRateError(input) ==
    IF input.id \notin RateIds THEN "FX rate not found"
    ELSE IF fxRates[input.id].is_locked THEN "FX rate is already locked"
    ELSE OK

(* The row lockFxRate's update leaves: only the fields the request
   carries are set *)
updateData(row, input) ==
    [row EXCEPT
        !.is_locked = IF input.is_locked # Undefined
                        THEN input.is_locked = "true" ELSE @,
        !.usd_to_pkr_rate = IF input.usd_to_pkr_rate # Null
                              THEN ToNumeric4(input.usd_to_pkr_rate) ELSE @]

lockFxRate(input) ==
    IF lockFxRateError(input) # OK
      THEN UNCHANGED vars
    ELSE /\ fxRates' = [fxRates EXCEPT ![input.id] = updateData(@, input)]
         /\ UNCHANGED <<periods, journals, journalLines, lineSeq, calls,
                     capitalMovements, returned>>

(* createFxRateInputSchema and updateFxRateInputSchema *)
CreateFxRateInputs == [date : DateInputs, usd_to_pkr_rate : RateInputs]

UpdateFxRateInputs ==
    [id : RateIdInputs, usd_to_pkr_rate : RateInputs \cup {Null},
     is_locked : {Undefined, "true", "false"}]

SetFxRate == \E input \in CreateFxRateInputs : setFxRate(input)

LockFxRate == \E input \in UpdateFxRateInputs : lockFxRate(input)

NextFx ==
    \/ LockFxRate
    \/ SetFxRate

SpecFx == Init /\ [][NextFx]_vars

----------------------------------------------------------------------------
(* The journal and period handlers run statement by statement.  A request
   slot holds one call in flight: the handler, the statement it executes
   next, the id it was called with and the value it keeps from a row it
   has read.  A step is one select, insert, update or delete on the tables
   the handlers write; the selects on users, accounts, partners and
   employees, which no handler writes, are taken with the statement that
   follows them, and the field of the request they check is drawn there.
   A call that throws frees its slot and has written nothing. *)

Calls == 1..MaxCalls

Idle == [op |-> "idle", pc |-> "idle", id |-> Null, kept |-> Null]

Call(op, pc, id, kept) == [op |-> op, pc |-> pc, id |-> id, kept |-> kept]

At(c, op, pc) == calls[c].op = op /\ calls[c].pc = pc

Goto(c, pc) == calls' = [calls EXCEPT ![c].pc = pc]

Return(c) == calls' = [calls EXCEPT ![c] = Idle]

(* The store a concurrent run starts from, as left by createPeriod,
   createJournal and addJournalLine: an OPEN period with one DRAFT journal
   whose single line is a debit of 0.01 *)
InitC ==
    /\ periods = <<NewPeriod(2024, 1)>>
    /\ journals = <<NewJournal(1)>>
    /\ journalLines =
           {NewLine(1, [journal_id |-> 1, debit_amount |-> 10,
                        credit_amount |-> 0, debit_amount_base |-> 10,
                        credit_amount_base |-> 0])}
    /\ lineSeq = 1
    /\ fxRates = <<>>
    /\ capitalMovements = <<>>
    /\ calls = [c \in Calls |-> Idle]
    /\ returned = <<>>

(* postJournal: getJournal *)
PostGetJournal(c, id) ==
    /\ calls[c] = Idle
    /\ UNCHANGED returned
    /\ IF id \notin JournalIds \/ journals[id].status = "POSTED"
         THEN UNCHANGED calls
         ELSE calls' = [calls EXCEPT ![c] =
                           Call("postJournal", "period", id, journals[id].period_id)]
    /\ UNCHANGED store

(* postJournal: select of the journal's period *)
PostGetPeriod(c) ==
    /\ At(c, "postJournal", "period")
    /\ UNCHANGED returned
    /\ IF calls[c].kept \notin PeriodIds \/ periods[calls[c].kept].status = "LOCKED"
         THEN Return(c)
         ELSE Goto(c, "validate")
    /\ UNCHANGED store

(* postJournal: validateJournal's select of the lines *)
PostValidate(c) ==
    /\ At(c, "postJournal", "validate")
    /\ UNCHANGED returned
    /\ IF validateJournal(calls[c].id) # <<>>
         THEN Return(c)
         ELSE Goto(c, "update")
    /\ UNCHANGED store

(* postJournal: select of the user, update of the journal *)
PostUpdate(c, posted_by) ==
    /\ At(c, "postJournal", "update")
    /\ UNCHANGED returned
    /\ Return(c)
    /\ IF posted_by \notin Users
         THEN UNCHANGED store
         ELSE /\ journals' = [journals EXCEPT ![calls[c].id] = PostedRow(@, posted_by)]
              /\ UNCHANGED <<periods, journalLines, lineSeq, fxRates, capitalMovements>>

(* lockPeriod: validatePeriodClose's select of the period *)
LockGetPeriod(c, id) ==
    /\ calls[c] = Idle
    /\ UNCHANGED returned
    /\ IF validateClose(PeriodRows(id), {}) # <<>>
         THEN UNCHANGED calls
         ELSE calls' = [calls EXCEPT ![c] = Call("lockPeriod", "drafts", id, Null)]
    /\ UNCHANGED store

(* lockPeriod: validatePeriodClose's select of the DRAFT journals *)
LockGetDrafts(c) ==
    /\ At(c, "lockPeriod", "drafts")
    /\ UNCHANGED returned
    /\ IF Cardinality(DraftJournalsOf(calls[c].id)) > 0
         THEN Return(c)
         ELSE Goto(c, "update")
    /\ UNCHANGED store

(* lockPeriod: select of the user, update of the period *)
LockUpdate(c, locked_by) ==
    /\ At(c, "lockPeriod", "update")
    /\ UNCHANGED returned
    /\ Return(c)
    /\ IF locked_by \notin Users
         THEN UNCHANGED store
         ELSE /\ periods' = [periods EXCEPT ![calls[c].id] = LockedRow(@, locked_by)]
              /\ UNCHANGED <<journals, journalLines, lineSeq, fxRates, capitalMovements>>

(* createJournal: select of the period *)
CreateGetPeriod(c, period_id) ==
    /\ calls[c] = Idle
    /\ UNCHANGED returned
    /\ IF period_id \notin PeriodIds \/ periods[period_id].status = "LOCKED"
         THEN UNCHANGED calls
         ELSE calls' = [calls EXCEPT ![c] =
                           Call("createJournal", "insert", period_id, Null)]
    /\ UNCHANGED store

(* createJournal: select of the user, insert of the journal *)
CreateInsert(c, created_by) ==
    /\ At(c, "createJournal", "insert")
    /\ UNCHANGED returned
    /\ Return(c)
    /\ IF created_by \notin Users
         THEN UNCHANGED store
         ELSE /\ Len(journals) < MaxJournals
              /\ journals' = Append(journals, NewJournal(calls[c].id))
              /\ UNCHANGED <<periods, journalLines, lineSeq, fxRates, capitalMovements>>

(* addJournalLine: select of the journal *)
AddGetJournal(c, journal_id) ==
    /\ calls[c] = Idle
    /\ UNCHANGED returned
    /\ IF journal_id \notin JournalIds \/ journals[journal_id].status = "POSTED"
         THEN UNCHANGED calls
         ELSE calls' = [calls EXCEPT ![c] =
                           Call("addJournalLine", "insert", journal_id, Null)]
    /\ UNCHANGED store

(* addJournalLine: selects of account, partner and employee, insert of
   the line *)
AddInsert(c, input) ==
    /\ At(c, "addJournalLine", "insert")
    /\ UNCHANGED returned
    /\ input.journal_id = calls[c].id
    /\ Return(c)
    /\ IF \/ input.account_id \notin Accounts
          \/ input.partner_id # Null /\ input.partner_id \notin Partners
          \/ input.employee_id # Null /\ input.employee_id \notin Employees
         THEN UNCHANGED store
         ELSE /\ lineSeq < MaxLines
              /\ lineSeq' = lineSeq + 1
              /\ journalLines' = journalLines \cup {NewLine(lineSeq', input)}
              /\ UNCHANGED <<periods, journals, fxRates, capitalMovements>>

(* As in AddJournalLine, a request rejected for its references is drawn
   with one choice of amounts *)
AddInsertAny(c) ==
    \E refs \in {r \in LineRefs : r.journal_id = calls[c].id} :
        \E amounts \in (IF addJournalLineError(LineInput(refs, NoAmounts))
                              \in {OK, "Cannot modify posted journal"}
                          THEN LineAmounts ELSE {NoAmounts}) :
            AddInsert(c, LineInput(refs, amounts))

(* deleteJournalLine: select of the line *)
DeleteGetLine(c, lineId) ==
    /\ calls[c] = Idle
    /\ UNCHANGED returned
    /\ IF \A l \in journalLines : l.id # lineId
         THEN UNCHANGED calls
         ELSE calls' = [calls EXCEPT ![c] =
                           Call("deleteJournalLine", "journal", lineId,
                                JournalOfLine(lineId))]
    /\ UNCHANGED store

(* deleteJournalLine: select of the line's journal *)
DeleteGetJournal(c) ==
    /\ At(c, "deleteJournalLine", "journal")
    /\ UNCHANGED returned
    /\ IF calls[c].kept \notin JournalIds \/ journals[calls[c].kept].status = "POSTED"
         THEN Return(c)
         ELSE Goto(c, "delete")
    /\ UNCHANGED store

(* deleteJournalLine: delete of the line *)
DeleteLine(c) ==
    /\ At(c, "deleteJournalLine", "delete")
    /\ UNCHANGED returned
    /\ Return(c)
    /\ journalLines' = {l \in journalLines : l.id # calls[c].id}
    /\ UNCHANGED <<periods, journals, lineSeq, fxRates, capitalMovements>>

NextC ==
    \E c \in Calls :
        \/ \E id \in JournalIdInputs : PostGetJournal(c, id)
        \/ PostGetPeriod(c)
        \/ PostValidate(c)
        \/ \E posted_by \in UserIds : PostUpdate(c, posted_by)
        \/ \E id \in PeriodIdInputs : LockGetPeriod(c, id)
        \/ LockGetDrafts(c)
        \/ \E locked_by \in UserIds : LockUpdate(c, locked_by)
        \/ \E period_id \in PeriodIdInputs : CreateGetPeriod(c, period_id)
        \/ \E created_by \in UserIds : CreateInsert(c, created_by)
        \/ \E journal_id \in JournalIdInputs : AddGetJournal(c, journal_id)
        \/ AddInsertAny(c)
        \/ \E lineId \in LineIdInputs : DeleteGetLine(c, lineId)
        \/ DeleteGetJournal(c)
        \/ DeleteLine(c)

SpecC == InitC /\ [][NextC]_vars

----------------------------------------------------------------------------
(* capital_movement_handlers: createCapitalMovement as one step *)

MovementIds == 1..Len(capitalMovements)

(* createCapitalMovementInputSchema *)
CapitalMovementInputs ==
    [partner_id : PartnerIds \ {Null}, movement_type : {"CONTRIBUTION", "DRAW"},
     amount : CapitalAmountInputs, currency : {"USD", "PKR"},
     transaction_date : DateInputs, created_by : UserIds]

(* The select with lt in place of lte *)
LatestRateOn_StrictlyBefore(dateStr) ==
    {r \in RateIds :
        /\ fxRates[r].date < dateStr
        /\ \A q \in RateIds :
               fxRates[q].date < dateStr => fxRates[q].date <= fxRates[r].date}

(* where date <= dateStr order by date desc limit 1 *)
LatestRateOn(dateStr) ==
    {r \in RateIds :
        /\ fxRates[r].date <= dateStr
        /\ \A q \in RateIds :
               fxRates[q].date <= dateStr => fxRates[q].date <= fxRates[r].date}

(* amount * fxRate in binary64: the amounts and rates of this model whose
   product, exactly on a half cent, is a double below it
   (0.09 * 278.5 is 25.064999999999998) *)
F64ProductBelowHalf == {<<90, 2785000>>}

(* amount * fxRate in binary64, printed by toString and rounded by the
   store to numeric(15,2), half away from zero: amount is in tenths of a
   cent and rate in ten-thousandths, the result in cents.  The other
   products of this model print within half a cent of the exact product
   (0.01 * 278.5 prints as 2.785, 0.01 * 280 as 2.8000000000000003). *)
AmountBase(amount, rate) ==
    IF <<amount, rate>> \in F64ProductBelowHalf
      THEN (amount * rate) \div 100000
    ELSE (amount * rate + 50000) \div 100000

createCapitalMovementError(input) ==
    IF /\ input.currency = "USD"
       /\ LatestRateOn(formatDateForDB(input.transaction_date)) = {}
      THEN "No FX rate available for the transaction date"
    ELSE IF input.partner_id \notin Partners \/ input.created_by \notin Users
      THEN "insert violates foreign key constraint"
    ELSE OK

NewCapitalMovement(input) ==
    LET dateStr == formatDateForDB(input.transaction_date)
        fxRate == IF input.currency = "USD"
                    THEN fxRates[CHOOSE r \in LatestRateOn(dateStr) : TRUE].usd_to_pkr_rate
                    ELSE Null
    IN  [partner_id |-> input.partner_id,
         movement_type |-> input.movement_type,
         amount |-> ToNumeric2(input.amount),
         currency |-> input.currency,
         amount_base |-> IF input.currency = "USD"
                           THEN AmountBase(input.amount, fxRate)
                           ELSE ToNumeric2(input.amount),
         fx_rate |-> fxRate,
         transaction_date |-> dateStr,
         journal_id |-> Null]

(* createCapitalMovement writing over the partner's movement of the same
   date when there is one *)
createCapitalMovement_Upsert(input) ==
    LET same == {m \in MovementIds :
                    /\ capitalMovements[m].partner_id = input.partner_id
                    /\ capitalMovements[m].transaction_date
                           = formatDateForDB(input.transaction_date)}
    IN  IF createCapitalMovementError(input) # OK
          THEN UNCHANGED vars
        ELSE /\ IF same # {}
                  THEN capitalMovements' =
                           [capitalMovements EXCEPT
                               ![CHOOSE m \in same : TRUE] = NewCapitalMovement(input)]
                ELSE /\ Len(capitalMovements) < MaxMovements
                     /\ capitalMovements' =
                            Append(capitalMovements, NewCapitalMovement(input))
             /\ UNCHANGED <<periods, journals, journalLines, lineSeq, fxRates,
                            calls, returned>>

createCapitalMovement(input) ==
    IF createCapitalMovementError(input) # OK
      THEN UNCHANGED vars
    ELSE /\ Len(capitalMovements) < MaxMovements
         /\ capitalMovements' = Append(capitalMovements, NewCapitalMovement(input))
         /\ UNCHANGED <<periods, journals, journalLines, lineSeq, fxRates, calls,
                        returned>>

CreateCapitalMovement ==
    \E input \in CapitalMovementInputs : createCapitalMovement(input)

----------------------------------------------------------------------------
(* createCapitalMovement called between setFxRate calls, each call as one
   step *)

ConvertedMovementInputs ==
    [partner_id : PartnerIds \ {Null}, movement_type : {"CONTRIBUTION", "DRAW"},
     amount : ConvertedAmountInputs, currency : {"USD", "PKR"},
     transaction_date : DateInputs, created_by : UserIds]

CreateConvertedMovement ==
    \E input \in ConvertedMovementInputs : createCapitalMovement(input)

NextK ==
    \/ SetFxRate
    \/ CreateConvertedMovement

SpecK == Init /\ [][NextK]_vars

----------------------------------------------------------------------------
(* getPartnerCapitalBalance called between setFxRate and
   createCapitalMovement calls, each call as one step; each result is kept
   in returned with the movements and rates then stored *)

(* The requests of these runs: rates of 278.5 for days 1 and 2, movements
   of partner 1 dated on those days *)
BalanceRateInputs == [date : {2, 4}, usd_to_pkr_rate : {27850000}]

BalanceMovementInputs ==
    [partner_id : Partners, movement_type : {"CONTRIBUTION", "DRAW"},
     amount : ConvertedAmountInputs, currency : {"USD", "PKR"},
     transaction_date : {2, 4}, created_by : Users]

(* The rows getPartnerCapitalBalance's select returns *)
MovementsOf(partnerId, asOfDate) ==
    {m \in MovementIds :
        /\ capitalMovements[m].partner_id = partnerId
        /\ asOfDate # NoDate
           => capitalMovements[m].transaction_date <= formatDateForDB(asOfDate)}

(* isContribution ? amount : -amount *)
adjustedAmount(movement) ==
    IF movement.movement_type = "CONTRIBUTION"
      THEN parseFloat(movement.amount)
    ELSE F64Neg(parseFloat(movement.amount))

(* The balance of a currency after the forEach over the rows, by id *)
RECURSIVE CurrencyBalance(_, _)
CurrencyBalance(rows, currency) ==
    IF rows = {} THEN <<0, 0>>
    ELSE LET last == CHOOSE m \in rows : \A k \in rows : k <= m
             before == CurrencyBalance(rows \ {last}, currency)
         IN  IF capitalMovements[last].currency = currency
               THEN F64Sum(before, adjustedAmount(capitalMovements[last]))
             ELSE before

(* getPartnerCapitalBalance when new Date() gives today.  totalBalancePkr
   is kept as the operands of pkrBalance + usdBalance * fxRate, with rate
   Null when nothing was added to pkrBalance; the handler throws nothing
   of its own *)
getPartnerCapitalBalance(partnerId, asOfDate, today) ==
    LET movements == MovementsOf(partnerId, asOfDate)
        usdBalance == CurrencyBalance(movements, "USD")
        pkrBalance == CurrencyBalance(movements, "PKR")
        dateToUse == IF asOfDate # NoDate THEN asOfDate ELSE today
        fxRateRecord == LatestRateOn(formatDateForDB(dateToUse))
        fxRate == IF usdBalance # <<0, 0>> /\ fxRateRecord # {}
                    THEN fxRates[CHOOSE r \in fxRateRecord : TRUE].usd_to_pkr_rate
                  ELSE Null
    IN  [error |-> OK,
         usdBalance |-> usdBalance,
         pkrBalance |-> pkrBalance,
         totalBalancePkr |-> [pkr |-> pkrBalance, usd |-> usdBalance,
                              rate |-> fxRate]]

SetBalanceRate == \E input \in BalanceRateInputs : setFxRate(input)

CreateBalanceMovement ==
    \E input \in BalanceMovementInputs : createCapitalMovement(input)

GetPartnerCapitalBalance ==
    \E partnerId \in PartnerIds \ {Null}, asOfDate \in DateInputs \cup {NoDate} :
        \E today \in (IF asOfDate = NoDate THEN DateInputs ELSE {0}) :
            /\ Len(returned) < MaxBalances
            /\ returned' =
                   Append(returned,
                          [op |-> "getPartnerCapitalBalance",
                           partner_id |-> partnerId,
                           asOfDate |-> asOfDate,
                           date |-> IF asOfDate # NoDate THEN asOfDate ELSE today,
                           movements |-> capitalMovements,
                           rates |-> StoredRates,
                           result |-> getPartnerCapitalBalance(partnerId,
                                                               asOfDate, today)])
            /\ UNCHANGED <<periods, journals, journalLines, lineSeq, fxRates,
                           calls, capitalMovements>>

NextKQ ==
    \/ SetBalanceRate
    \/ CreateBalanceMovement
    \/ GetPartnerCapitalBalance

SpecKQ == Init /\ [][NextKQ]_vars

----------------------------------------------------------------------------
(* Every handler that writes, each call as one step, on a store of at most
   MaxAllRows rows a table *)

WithinAll ==
    /\ Len(periods) <= MaxAllRows
    /\ Len(journals) <= MaxAllRows
    /\ lineSeq <= MaxAllRows
    /\ Len(fxRates) <= MaxAllRows
    /\ Len(capitalMovements) <= MaxAllRows

NextAll ==
    \/ CreatePeriod /\ WithinAll'
    \/ LockPeriod /\ WithinAll'
    \/ CreateJournal /\ WithinAll'
    \/ AddJournalLine /\ WithinAll'
    \/ DeleteJournalLine /\ WithinAll'
    \/ PostJournal /\ WithinAll'
    \/ LockFxRate /\ WithinAll'
    \/ SetFxRate /\ WithinAll'
    \/ CreateCapitalMovement /\ WithinAll'

SpecAll == Init /\ [][NextAll]_vars

----------------------------------------------------------------------------
(* The FX-rate handlers run statement by statement in concurrent requests.
   A slot keeps the request in kept and, in id, the id of the row the
   handler's select returned. *)

InitFxC ==
    /\ periods = <<>>
    /\ journals = <<>>
    /\ journalLines = {}
    /\ lineSeq = 0
    /\ fxRates = <<>>
    /\ capitalMovements = <<>>
    /\ calls = [c \in Calls |-> Idle]
    /\ returned = <<>>

(* setFxRate: select of the rate of the date *)
FxSetGetRate(c, input) ==
    /\ calls[c].op = "idle"
    /\ LET existingRates == RatesOn(formatDateForDB(input.date))
       IN  IF existingRates = {}
             THEN calls' = [calls EXCEPT ![c] = Call("setFxRate", "insert", Null, input)]
           ELSE LET existingRate == CHOOSE r \in existingRates : TRUE
                IN  IF fxRates[existingRate].is_locked
                      THEN UNCHANGED calls
                      ELSE calls' = [calls EXCEPT ![c] =
                                        Call("setFxRate", "update", existingRate, input)]
    /\ UNCHANGED <<store, returned>>

(* setFxRate: update of the existing rate, by id *)
FxSetUpdate(c) ==
    /\ At(c, "setFxRate", "update")
    /\ Return(c)
    /\ fxRates' = [fxRates EXCEPT ![calls[c].id].usd_to_pkr_rate =
                       ToNumeric4(calls[c].kept.usd_to_pkr_rate)]
    /\ UNCHANGED <<periods, journals, journalLines, lineSeq, capitalMovements,
                   returned>>

(* setFxRate's insert into a table without the unique constraint on date *)
FxSetInsert_NoUniqueDate(c) ==
    /\ At(c, "setFxRate", "insert")
    /\ Return(c)
    /\ Len(fxRates) < MaxRates
    /\ fxRates' = Append(fxRates,
                         NewFxRate(formatDateForDB(calls[c].kept.date),
                                   calls[c].kept.usd_to_pkr_rate))
    /\ UNCHANGED <<periods, journals, journalLines, lineSeq, capitalMovements,
                   returned>>

(* setFxRate: insert of a new rate; the unique constraint on date rejects
   the insert when a row of that date has appeared since the select *)
FxSetInsert(c) ==
    /\ At(c, "setFxRate", "insert")
    /\ Return(c)
    /\ LET dateStr == formatDateForDB(calls[c].kept.date)
       IN  IF RatesOn(dateStr) # {}
             THEN UNCHANGED fxRates
             ELSE /\ Len(fxRates) < MaxRates
                  /\ fxRates' = Append(fxRates,
                                       NewFxRate(dateStr, calls[c].kept.usd_to_pkr_rate))
    /\ UNCHANGED <<periods, journals, journalLines, lineSeq, capitalMovements,
                   returned>>

(* lockFxRate: select of the rate, by id *)
FxLockGetRate(c, input) ==
    /\ calls[c].op = "idle"
    /\ IF lockFxRateError(input) # OK
         THEN UNCHANGED calls
         ELSE calls' = [calls EXCEPT ![c] = Call("lockFxRate", "update", input.id, input)]
    /\ UNCHANGED <<store, returned>>

(* lockFxRate: update of the rate, by id *)
FxLockUpdate(c) ==
    /\ At(c, "lockFxRate", "update")
    /\ Return(c)
    /\ fxRates' = [fxRates EXCEPT ![calls[c].id] = updateData(@, calls[c].kept)]
    /\ UNCHANGED <<periods, journals, journalLines, lineSeq, capitalMovements,
                   returned>>

NextFxC ==
    \E c \in Calls :
        \/ \E input \in CreateFxRateInputs : FxSetGetRate(c, input)
        \/ FxSetUpdate(c)
        \/ FxSetInsert(c)
        \/ \E input \in UpdateFxRateInputs : FxLockGetRate(c, input)
        \/ FxLockUpdate(c)

SpecFxC == InitFxC /\ [][NextFxC]_vars

----------------------------------------------------------------------------
(* validateJournal called between line insertions and deletions on one
   DRAFT journal of an OPEN period; each call's result is kept in returned
   with the lines the journal had *)

(* Request amounts, in tenths of a cent: 0, 0.03 and 0.04 *)
ValidatedAmountInputs == {0, 30, 40}

(* Request base amounts, in tenths of a cent: 0 and 0.04 *)
ValidatedBaseInputs == {0, 40}

ValidatedLineInputs ==
    [journal_id : {1}, account_id : Accounts, partner_id : {Null},
     employee_id : {Null},
     debit_amount : ValidatedAmountInputs,
     credit_amount : ValidatedAmountInputs,
     debit_amount_base : ValidatedBaseInputs,
     credit_amount_base : ValidatedBaseInputs]

InitV ==
    /\ periods = <<NewPeriod(2024, 1)>>
    /\ journals = <<NewJournal(1)>>
    /\ journalLines = {}
    /\ lineSeq = 0
    /\ fxRates = <<>>
    /\ capitalMovements = <<>>
    /\ calls = <<>>
    /\ returned = <<>>

(* validateJournal with a select of the journal ahead of its lines *)
validateJournalResult_NotFound(journalId) ==
    IF journalId \notin JournalIds
      THEN [isValid |-> FALSE, errors |-> <<Err("Journal not found", <<>>)>>]
    ELSE IF LinesOf(journalId) = {}
      THEN [isValid |-> FALSE, errors |-> <<Err("Journal has no lines", <<>>)>>]
    ELSE [isValid |-> Len(validateJournal(journalId)) = 0,
          errors |-> validateJournal(journalId)]

(* What validateJournal resolves to *)
validateJournalResult(journalId) ==
    IF LinesOf(journalId) = {}
      THEN [isValid |-> FALSE, errors |-> <<Err("Journal has no lines", <<>>)>>]
    ELSE [isValid |-> Len(validateJournal(journalId)) = 0,
          errors |-> validateJournal(journalId)]

Returned(journalId, result) ==
    [journal_id |-> journalId, lines |-> LinesOf(journalId),
     isValid |-> result.isValid, errors |-> result.errors]

(* validateJournal with an errors array that outlives the call *)
ValidateJournal_SharedErrors(journalId) ==
    LET result == validateJournalResult(journalId)
        before == IF returned = <<>> THEN <<>>
                  ELSE returned[Len(returned)].errors
        errors == IF LinesOf(journalId) = {} THEN result.errors
                  ELSE before \o result.errors
    IN  /\ Len(returned) < MaxReturned
        /\ returned' = Append(returned,
                              Returned(journalId,
                                       [isValid |-> Len(errors) = 0,
                                        errors |-> errors]))
        /\ UNCHANGED <<periods, journals, journalLines, lineSeq, fxRates,
                       calls, capitalMovements>>

(* A call of validateJournal: one select, no write *)
ValidateJournal(journalId) ==
    /\ Len(returned) < MaxReturned
    /\ returned' = Append(returned,
                          Returned(journalId, validateJournalResult(journalId)))
    /\ UNCHANGED <<periods, journals, journalLines, lineSeq, fxRates,
                   calls, capitalMovements>>

ValidateAnyJournal == \E journalId \in JournalIdInputs : ValidateJournal(journalId)

AddValidatedLine == \E input \in ValidatedLineInputs : addJournalLine(input)

NextV ==
    \/ AddValidatedLine
    \/ DeleteJournalLine
    \/ ValidateAnyJournal

SpecV == InitV /\ [][NextV]_vars

----------------------------------------------------------------------------
(* createPeriod, createJournal and lockPeriod run statement by statement in
   concurrent requests on a store that starts empty, with
   validatePeriodClose called in between; each of its results is kept in
   returned with what the period then was.  A createPeriod in flight keeps
   its year and month in kept as year * 12 + month - 1. *)

InitP ==
    /\ periods = <<>>
    /\ journals = <<>>
    /\ journalLines = {}
    /\ lineSeq = 0
    /\ fxRates = <<>>
    /\ capitalMovements = <<>>
    /\ calls = [c \in Calls |-> Idle]
    /\ returned = <<>>

(* createPeriod: select of the period with that year and month *)
PeriodGetExisting(c, year, month) ==
    /\ calls[c] = Idle
    /\ UNCHANGED returned
    /\ IF createPeriodError(year, month) # OK
         THEN UNCHANGED calls
         ELSE calls' = [calls EXCEPT ![c] =
                           Call("createPeriod", "insert", Null,
                                year * 12 + month - 1)]
    /\ UNCHANGED store

(* createPeriod: insert of the period *)
PeriodInsert(c) ==
    /\ At(c, "createPeriod", "insert")
    /\ UNCHANGED returned
    /\ Return(c)
    /\ Len(periods) < MaxPeriods
    /\ periods' = Append(periods, NewPeriod(calls[c].kept \div 12,
                                            (calls[c].kept % 12) + 1))
    /\ UNCHANGED <<journals, journalLines, lineSeq, fxRates, capitalMovements>>

(* What validatePeriodClose resolves to *)
validatePeriodCloseResult(periodId) ==
    LET errors == validatePeriodClose(periodId)
    IN  IF periodId \notin PeriodIds \/ periods[periodId].status = "LOCKED"
          THEN [canClose |-> FALSE, errors |-> errors]
        ELSE [canClose |-> Len(errors) = 0, errors |-> errors]

ReturnedClose(periodId, result) ==
    [period_id |-> periodId,
     status |-> IF periodId \in PeriodIds THEN periods[periodId].status
                ELSE "none",
     drafts |-> Cardinality(DraftJournalsOf(periodId)),
     canClose |-> result.canClose, errors |-> result.errors]

(* A call of validatePeriodClose: selects only *)
ValidatePeriodClose(periodId) ==
    /\ Len(returned) < MaxReturned
    /\ returned' = Append(returned,
                          ReturnedClose(periodId,
                                        validatePeriodCloseResult(periodId)))
    /\ UNCHANGED <<periods, journals, journalLines, lineSeq, fxRates,
                   calls, capitalMovements>>

NextP ==
    \/ \E c \in Calls :
        \/ \E year \in Years, month \in Months : PeriodGetExisting(c, year, month)
        \/ PeriodInsert(c)
        \/ \E period_id \in PeriodIdInputs : CreateGetPeriod(c, period_id)
        \/ \E created_by \in UserIds : CreateInsert(c, created_by)
        \/ \E id \in PeriodIdInputs : LockGetPeriod(c, id)
        \/ LockGetDrafts(c)
        \/ \E locked_by \in UserIds : LockUpdate(c, locked_by)
    \/ \E periodId \in PeriodIdInputs : ValidatePeriodClose(periodId)

SpecP == InitP /\ [][NextP]_vars

----------------------------------------------------------------------------
(* fx_handlers: getFxRate and getCurrentFxRate called between setFxRate and
   lockFxRate calls, each call as one step; each result is kept in returned
   with the rates then stored *)

(* getFxRate without its second select *)
getFxRate_ExactOnly(date) ==
    LET dateStr == formatDateForDB(date)
        exactRates == RatesOn(dateStr)
    IN  IF exactRates # {}
          THEN CHOOSE r \in exactRates : \A q \in exactRates : r <= q
        ELSE Null

(* getFxRate: the id of the rate it returns, Null for null *)
getFxRate(date) ==
    LET dateStr == formatDateForDB(date)
        exactRates == RatesOn(dateStr)
        recentRates == LatestRateOn(dateStr)
    IN  IF exactRates # {}
          THEN CHOOSE r \in exactRates : \A q \in exactRates : r <= q
        ELSE IF recentRates # {}
          THEN CHOOSE r \in recentRates : TRUE
        ELSE Null

(* getCurrentFxRate with a select that leaves out its date condition *)
getCurrentFxRate_NoDateFilter(today) ==
    LET recentRates == {r \in RateIds :
                           \A q \in RateIds : fxRates[q].date <= fxRates[r].date}
    IN  IF recentRates # {}
          THEN [value |-> fxRates[CHOOSE r \in recentRates : TRUE].usd_to_pkr_rate,
                error |-> OK]
        ELSE [value |-> Null, error |-> "No FX rate available"]

(* getCurrentFxRate when new Date() gives today: the number it returns,
   in ten-thousandths, or the error it throws *)
getCurrentFxRate(today) ==
    LET recentRates == LatestRateOn(formatDateForDB(today))
    IN  IF recentRates # {}
          THEN [value |-> fxRates[CHOOSE r \in recentRates : TRUE].usd_to_pkr_rate,
                error |-> OK]
        ELSE [value |-> Null, error |-> "No FX rate available"]

GetFxRate ==
    \E date \in DateInputs :
        /\ Len(returned) < MaxReturned
        /\ returned' = Append(returned,
                              [op |-> "getFxRate", date |-> date,
                               rates |-> StoredRates, result |-> getFxRate(date)])
        /\ UNCHANGED <<periods, journals, journalLines, lineSeq, fxRates,
                       calls, capitalMovements>>

GetCurrentFxRate ==
    \E today \in DateInputs :
        /\ Len(returned) < MaxReturned
        /\ returned' = Append(returned,
                              [op |-> "getCurrentFxRate", date |-> today,
                               rates |-> StoredRates,
                               result |-> getCurrentFxRate(today)])
        /\ UNCHANGED <<periods, journals, journalLines, lineSeq, fxRates,
                       calls, capitalMovements>>

NextFxQ ==
    \/ LockFxRate
    \/ SetFxRate
    \/ GetFxRate
    \/ GetCurrentFxRate

SpecFxQ == Init /\ [][NextFxQ]_vars

----------------------------------------------------------------------------
(* period_handlers: getCurrentPeriod called between createPeriod and
   lockPeriod calls, each call as one step; each result is kept in returned
   with the periods then stored *)

(* The (year, month) pairs of the createPeriod requests *)
YearMonths == {<<2023, 12>>, <<2024, 1>>, <<2024, 2>>}

(* order by year desc, month desc: p comes before q *)
Before(p, q) ==
    \/ periods[p].year > periods[q].year
    \/ periods[p].year = periods[q].year /\ periods[p].month > periods[q].month

(* getCurrentPeriod with a select that leaves out its status condition *)
getCurrentPeriod_NoStatusFilter ==
    LET result == PeriodIds
    IN  IF result # {}
          THEN CHOOSE p \in result : \A q \in result \ {p} : Before(p, q)
        ELSE Null

(* getCurrentPeriod: the id of the period it returns, Null for null *)
getCurrentPeriod ==
    LET result == {p \in PeriodIds : periods[p].status = "OPEN"}
    IN  IF result # {}
          THEN CHOOSE p \in result : \A q \in result \ {p} : Before(p, q)
        ELSE Null

CreateYearMonth == \E ym \in YearMonths : createPeriod(ym[1], ym[2])

GetCurrentPeriod ==
    /\ Len(returned) < MaxReturned
    /\ returned' = Append(returned,
                          [op |-> "getCurrentPeriod", periods |-> periods,
                           result |-> getCurrentPeriod])
    /\ UNCHANGED <<periods, journals, journalLines, lineSeq, fxRates,
                   calls, capitalMovements>>

NextPQ ==
    \/ CreateYearMonth
    \/ LockPeriod
    \/ GetCurrentPeriod

SpecPQ == Init /\ [][NextPQ]_vars

----------------------------------------------------------------------------
(* Properties of the journal and period handlers run one call at a time *)

RECURSIVE SumCents(_, _)
SumCents(rows, field) ==
    IF rows = {} THEN 0
    ELSE LET l == CHOOSE l \in rows : TRUE
         IN  l[field] + SumCents(rows \ {l}, field)

Abs(x) == IF x < 0 THEN -x ELSE x

Posted(j) == j \in JournalIds /\ journals[j].status = "POSTED"

Locked(p) == p \in PeriodIds /\ periods[p].status = "LOCKED"

OneSided(l) ==
    \/ l.debit_amount > 0 /\ l.credit_amount = 0
    \/ l.debit_amount = 0 /\ l.credit_amount > 0

Balanced(j) ==
    /\ LinesOf(j) # {}
    /\ \A l \in LinesOf(j) : OneSided(l)
    /\ Abs(SumCents(LinesOf(j), "debit_amount")
           - SumCents(LinesOf(j), "credit_amount")) <= 1
    /\ Abs(SumCents(LinesOf(j), "debit_amount_base")
           - SumCents(LinesOf(j), "credit_amount_base")) <= 1

(* C1: every POSTED journal has at least one line, each of its lines has
   exactly one of debit_amount and credit_amount above zero, and its debit
   and credit totals differ by at most 0.01, in transaction currency and in
   base currency. *)
C1_PostedJournalsBalanced == \A j \in JournalIds : Posted(j) => Balanced(j)

(* a POSTED journal of two lines *)
C1_Witness ==
    \E j \in JournalIds : Posted(j) /\ Cardinality(LinesOf(j)) = 2

(* C2: no LOCKED period is referenced by a DRAFT journal. *)
C2_NoDraftInLockedPeriod ==
    \A j \in JournalIds :
        journals[j].status = "DRAFT" => ~Locked(journals[j].period_id)

(* a LOCKED period that holds a journal, beside a DRAFT journal of
   another period *)
C2_Witness ==
    \E j, k \in JournalIds :
        /\ Locked(journals[j].period_id)
        /\ journals[k].status = "DRAFT"

(* Every postJournal and addJournalLine on a POSTED journal and every
   deleteJournalLine of one of its lines is rejected *)
C3_PostedRejectsCalls ==
    \A j \in JournalIds :
        Posted(j) =>
            /\ \A posted_by \in UserIds :
                   postJournalError(j, posted_by) = "Journal already posted"
            /\ \A refs \in LineRefs :
                   refs.journal_id = j =>
                       addJournalLineError(LineInput(refs, NoAmounts))
                           = "Cannot modify posted journal"
            /\ \A l \in LinesOf(j) :
                   deleteJournalLineError(l.id)
                       = "Cannot delete line from posted journal"

(* A step leaves the row and the lines of a POSTED journal as they are *)
C3_PostedUnchanged ==
    \A j \in JournalIds :
        Posted(j) =>
            /\ journals'[j] = journals[j]
            /\ {l \in journalLines' : l.journal_id = j} = LinesOf(j)

(* C3: POSTED is terminal: a POSTED journal keeps its status, posted_at,
   posted_by and its set of lines in every step, and every addJournalLine
   on it, every deleteJournalLine of one of its lines and every postJournal
   on it is rejected. *)
C3_PostedIsTerminal == [](C3_PostedRejectsCalls) /\ [][C3_PostedUnchanged]_vars

(* a POSTED journal with a line, while the store still has room for the
   line a rejected addJournalLine would have inserted *)
C3_Witness ==
    \E j \in JournalIds :
        Posted(j) /\ LinesOf(j) # {} /\ lineSeq < MaxLines

(* Every lockPeriod on a LOCKED period is rejected *)
C6_LockedRejectsLock ==
    \A p \in PeriodIds :
        Locked(p) =>
            \A locked_by \in UserIds :
                lockPeriodError(p, locked_by) = "Cannot lock period"

(* A step leaves the row of a LOCKED period as it is *)
C6_LockedUnchanged ==
    \A p \in PeriodIds : Locked(p) => periods'[p] = periods[p]

(* C6: a LOCKED period stays LOCKED with its locked_at and locked_by in
   every step, and every lockPeriod on it is rejected. *)
C6_LockedIsTerminal == [](C6_LockedRejectsLock) /\ [][C6_LockedUnchanged]_vars

(* a LOCKED period beside an OPEN one *)
C6_Witness ==
    \E p, q \in PeriodIds : Locked(p) /\ periods[q].status = "OPEN"

(* postJournal is accepted exactly when the journal exists and is DRAFT,
   its period is OPEN, its lines validate and the user exists *)
PostAcceptedIff ==
    \A id \in JournalIdInputs, posted_by \in UserIds :
        postJournalError(id, posted_by) = OK
        <=> /\ id \in JournalIds
            /\ journals[id].status = "DRAFT"
            /\ journals[id].period_id \in PeriodIds
            /\ periods[journals[id].period_id].status = "OPEN"
            /\ validateJournal(id) = <<>>
            /\ posted_by \in Users

(* An accepted postJournal posts the journal for the user it names, and a
   step that posts a journal changes that journal's row only *)
PostEffect ==
    /\ journals' # journals
       => \A id \in JournalIdInputs, posted_by \in UserIds :
           postJournalError(id, posted_by) = OK /\ postJournal(id, posted_by)
           => /\ journals'[id].status = "POSTED"
              /\ journals'[id].posted_by = posted_by
              /\ journals'[id].posted_at # Null
    /\ \A j \in JournalIds :
           journals[j].status = "DRAFT" /\ journals'[j].status = "POSTED"
           => /\ journals'[j].period_id = journals[j].period_id
              /\ Len(journals') = Len(journals)
              /\ \A k \in JournalIds \ {j} : journals'[k] = journals[k]
              /\ UNCHANGED <<periods, journalLines, lineSeq, fxRates,
                             capitalMovements>>

(* C13: postJournal succeeds exactly when the journal exists, is DRAFT, its
   period is OPEN, validateJournal finds it valid and the user exists; a
   successful call sets that journal's status to POSTED, posted_by to the
   user and posted_at, and changes neither its lines nor any other journal,
   period or rate. *)
C13_PostJournalContract == [](PostAcceptedIff) /\ [][PostEffect]_vars

(* a POSTED journal beside a DRAFT journal that has a line *)
C13_Witness ==
    \E j, k \in JournalIds :
        Posted(j) /\ journals[k].status = "DRAFT" /\ LinesOf(k) # {}

(* An accepted lockPeriod locks the period for the user it names *)
LockEffect ==
    \A id \in PeriodIdInputs, locked_by \in UserIds :
        lockPeriodError(id, locked_by) = OK /\ lockPeriod(id, locked_by)
        => /\ periods'[id].status = "LOCKED"
           /\ periods'[id].locked_by = locked_by

(* C14 as stated: lockPeriod reports the first failing check in the order
   period absent, user absent, validatePeriodClose errors; a call that
   names an absent user on a period that has DRAFT journals or is LOCKED
   is rejected for the user. *)
C14_UserCheckedBeforeClose ==
    \A id \in PeriodIdInputs, locked_by \in UserIds :
        lockPeriodError(id, locked_by) =
            IF id \notin PeriodIds THEN "Cannot lock period"
            ELSE IF locked_by \notin Users
              THEN "Invalid user ID for locking period"
            ELSE IF Locked(id) \/ DraftJournalsOf(id) # {}
              THEN "Cannot lock period"
            ELSE OK

(* lockPeriod rejects a period that is absent, LOCKED or has DRAFT journals
   before it looks at the user *)
CloseCheckedBeforeUser ==
    \A id \in PeriodIdInputs, locked_by \in UserIds :
        lockPeriodError(id, locked_by) =
            IF id \notin PeriodIds \/ Locked(id) \/ DraftJournalsOf(id) # {}
              THEN "Cannot lock period"
            ELSE IF locked_by \notin Users
              THEN "Invalid user ID for locking period"
            ELSE OK

(* C14 amended: lockPeriod reports the first failing check in the order
   validatePeriodClose errors (period absent, already LOCKED, DRAFT
   journals), then user absent; when no check fails it sets status LOCKED
   and locked_by to the user. *)
C14_CloseCheckedBeforeUser == [](CloseCheckedBeforeUser) /\ [][LockEffect]_vars

(* a LOCKED period beside a period that has a DRAFT journal *)
C14_Witness ==
    \E p, q \in PeriodIds : Locked(p) /\ DraftJournalsOf(q) # {}

(* createJournal reports the period absent, else the period LOCKED, else
   the user absent *)
CreateJournalErrorOrder ==
    \A period_id \in PeriodIdInputs, created_by \in UserIds :
        createJournalError(period_id, created_by) =
            IF period_id \notin PeriodIds THEN "Period not found"
            ELSE IF Locked(period_id)
              THEN "Cannot create journal in locked period"
            ELSE IF created_by \notin Users THEN "User not found"
            ELSE OK

(* An accepted createJournal appends one unposted DRAFT journal of the
   period it names, and a step that adds a journal adds one DRAFT journal,
   in a period that is not LOCKED *)
CreateJournalEffect ==
    /\ \A period_id \in PeriodIdInputs, created_by \in UserIds :
           /\ createJournalError(period_id, created_by) = OK
           /\ createJournal(period_id, created_by)
           => /\ Len(journals') = Len(journals) + 1
              /\ journals'[Len(journals')] =
                     [period_id |-> period_id, status |-> "DRAFT",
                      posted_at |-> Null, posted_by |-> Null]
    /\ Len(journals') # Len(journals)
       => /\ Len(journals') = Len(journals) + 1
          /\ \A j \in JournalIds : journals'[j] = journals[j]
          /\ journals'[Len(journals')].status = "DRAFT"
          /\ ~Locked(journals'[Len(journals')].period_id)

(* C15: createJournal fails with period-not-found when the period is
   absent, else with the locked-period error when it is LOCKED, else with
   user-not-found when created_by is absent; otherwise it adds exactly one
   journal, DRAFT, with posted_at and posted_by null and the period_id
   given, so that no journal is created in a LOCKED period. *)
C15_CreateJournalContract ==
    [](CreateJournalErrorOrder) /\ [][CreateJournalEffect]_vars

(* a journal exists, a period is LOCKED and the journals table has room
   for the journal a createJournal in that period would insert *)
C15_Witness ==
    /\ \E p \in PeriodIds : Locked(p)
    /\ JournalIds # {}
    /\ Len(journals) < MaxJournals

(* addJournalLine reports the journal absent, else POSTED, else the
   account absent, else a given partner absent, else a given employee
   absent, whatever the amounts of the request *)
AddLineErrorOrder ==
    \A refs \in LineRefs :
        LET error ==
                IF refs.journal_id \notin JournalIds THEN "Journal not found"
                ELSE IF Posted(refs.journal_id) THEN "Cannot modify posted journal"
                ELSE IF refs.account_id \notin Accounts THEN "Account not found"
                ELSE IF refs.partner_id # Null /\ refs.partner_id \notin Partners
                  THEN "Partner not found"
                ELSE IF refs.employee_id # Null /\ refs.employee_id \notin Employees
                  THEN "Employee not found"
                ELSE OK
        IN  \A amounts \in LineAmounts :
                addJournalLineError(LineInput(refs, amounts)) = error

(* A step that adds a line adds one line, to a DRAFT journal, and the line
   is the one an accepted request asks for, whatever its amounts *)
AddLineEffect ==
    journalLines' # journalLines /\ journalLines \subseteq journalLines'
    => /\ Cardinality(journalLines' \ journalLines) = 1
       /\ \A l \in journalLines' \ journalLines :
              /\ l.journal_id \in JournalIds
              /\ journals[l.journal_id].status = "DRAFT"
              /\ \E refs \in LineRefs, amounts \in LineAmounts :
                     /\ addJournalLineError(LineInput(refs, amounts)) = OK
                     /\ l = NewLine(lineSeq', LineInput(refs, amounts))
       /\ UNCHANGED <<periods, journals, fxRates, capitalMovements>>

(* C16: addJournalLine fails, in this order, with journal-not-found,
   posted-journal, account-not-found, partner-not-found when a partner id
   is given, employee-not-found when an employee id is given; otherwise it
   inserts exactly one line into the DRAFT journal, with no check of
   balance or of the line's shape. *)
C16_AddJournalLineContract == [](AddLineErrorOrder) /\ [][AddLineEffect]_vars

(* a DRAFT journal that holds a line with both debit and credit and a line
   with neither, and so does not balance *)
C16_Witness ==
    \E j \in JournalIds :
        /\ journals[j].status = "DRAFT"
        /\ \E l \in LinesOf(j) : l.debit_amount > 0 /\ l.credit_amount > 0
        /\ \E l \in LinesOf(j) : l.debit_amount = 0 /\ l.credit_amount = 0
        /\ SumCents(LinesOf(j), "debit_amount_base")
               # SumCents(LinesOf(j), "credit_amount_base")

(* deleteJournalLine reports the line absent, else its journal POSTED *)
DeleteLineErrorOrder ==
    \A lineId \in LineIdInputs :
        deleteJournalLineError(lineId) =
            IF \A l \in journalLines : l.id # lineId
              THEN "Journal line not found"
            ELSE IF \E l \in journalLines : l.id = lineId /\ Posted(l.journal_id)
              THEN "Cannot delete line from posted journal"
            ELSE OK

(* An accepted deleteJournalLine removes the line it names and nothing
   else, and a step that removes a line removes one line, of a DRAFT
   journal *)
DeleteLineEffect ==
    /\ \A lineId \in LineIdInputs :
           deleteJournalLineError(lineId) = OK /\ deleteJournalLine(lineId)
           => /\ journalLines' = {l \in journalLines : l.id # lineId}
              /\ UNCHANGED <<periods, journals, lineSeq, fxRates,
                             capitalMovements>>
    /\ journalLines \ journalLines' # {}
       => /\ Cardinality(journalLines \ journalLines') = 1
          /\ journalLines' \subseteq journalLines
          /\ \A l \in journalLines \ journalLines' :
                 journals[l.journal_id].status = "DRAFT"
          /\ UNCHANGED <<periods, journals, lineSeq, fxRates, capitalMovements>>

(* C17: deleteJournalLine fails with line-not-found when the line is
   absent and with the posted-journal error when the line's journal is
   POSTED; otherwise it removes exactly that line and leaves every other
   line, the journal's status and every other record unchanged. *)
C17_DeleteJournalLineContract ==
    [](DeleteLineErrorOrder) /\ [][DeleteLineEffect]_vars

(* a line has been deleted while the other line of its journal stays *)
C17_Witness ==
    /\ lineSeq = 2
    /\ \E l \in journalLines : l.id = 1 /\ Cardinality(LinesOf(l.journal_id)) = 1
    /\ \A l \in journalLines : l.id # 2

(* C18: under atomically executed calls no journal line is inserted into
   or deleted from a journal whose period is LOCKED, although
   addJournalLine and deleteJournalLine read only the journal's status. *)
C18_LockedPeriodLinesFrozen ==
    [][journalLines' # journalLines
       => \A j \in JournalIds :
              Locked(journals[j].period_id)
              => {l \in journalLines' : l.journal_id = j} = LinesOf(j)]_vars

(* a LOCKED period holds a POSTED journal with a line while a DRAFT
   journal of an OPEN period holds a line that can still be deleted *)
C18_Witness ==
    \E j \in JournalIds, k \in JournalIds :
        /\ Locked(journals[j].period_id)
        /\ LinesOf(j) # {}
        /\ ~Locked(journals[k].period_id)
        /\ journals[k].status = "DRAFT"
        /\ LinesOf(k) # {}

----------------------------------------------------------------------------
(* Properties of the journal and period handlers run concurrently *)

(* C7: of the postJournal calls that run concurrently on a DRAFT journal
   at most one succeeds: no journal's posted_at and posted_by are written
   more than once. *)
C7_PostedOnce == \A j \in JournalIds : journals[j].posted_at <= NewDate(Null)

(* C8: while lockPeriod and createJournal run concurrently, no LOCKED
   period holds a DRAFT journal. *)
C8_LockedPeriodHasNoDraft ==
    \A p \in PeriodIds : Locked(p) => DraftJournalsOf(p) = {}

(* C9: while addJournalLine and deleteJournalLine run concurrently with
   postJournal, no line is inserted into or removed from a journal that is
   POSTED, and every POSTED journal has balanced, well-shaped lines. *)
C9_PostedLinesFrozen ==
    /\ [](\A j \in JournalIds : Posted(j) => Balanced(j))
    /\ [][\A j \in JournalIds :
             Posted(j) => {l \in journalLines' : l.journal_id = j} = LinesOf(j)]_vars

(* C10: while postJournal and lockPeriod run concurrently, no journal's
   status, posted_at or posted_by is written while its period is LOCKED. *)
C10_NoPostIntoLockedPeriod ==
    [][\A j \in JournalIds :
          Locked(journals[j].period_id) => journals'[j] = journals[j]]_vars

----------------------------------------------------------------------------
(* Properties of the FX-rate handlers run one call at a time *)

RateLocked(r) == r \in RateIds /\ fxRates[r].is_locked

(* Every setFxRate for the date of a locked rate and every lockFxRate on
   its id is rejected *)
C4_LockedRejectsCalls ==
    \A r \in RateIds :
        RateLocked(r) =>
            /\ \A input \in CreateFxRateInputs :
                   formatDateForDB(input.date) = fxRates[r].date =>
                       setFxRateError(input) = "Cannot update locked FX rate"
            /\ \A input \in UpdateFxRateInputs :
                   input.id = r =>
                       lockFxRateError(input) = "FX rate is already locked"

(* A step leaves the row of a locked rate as it is *)
C4_LockedUnchanged ==
    \A r \in RateIds : RateLocked(r) => fxRates'[r] = fxRates[r]

(* C4: a locked rate stays locked with its usd_to_pkr_rate in every step;
   every setFxRate for its date is rejected as locked and every lockFxRate
   on its id as already locked. *)
C4_LockedRateImmutable == [](C4_LockedRejectsCalls) /\ [][C4_LockedUnchanged]_vars

(* a locked rate beside an unlocked one *)
C4_Witness ==
    \E r, q \in RateIds : RateLocked(r) /\ ~fxRates[q].is_locked

(* C5: a lockFxRate call that is not rejected leaves the rate locked,
   whatever optional fields the request carries. *)
C5_LockFxRateLocks ==
    [][\A input \in UpdateFxRateInputs :
          (lockFxRateError(input) = OK /\ lockFxRate(input))
              => fxRates'[input.id].is_locked]_vars

----------------------------------------------------------------------------
(* Properties of the FX-rate handlers run concurrently *)

(* C11: while setFxRate and lockFxRate run concurrently on the rate of a
   date, no step changes the usd_to_pkr_rate of a rate whose is_locked is
   true. *)
C11_LockedRateNeverRewritten ==
    [][\A r \in RateIds :
          RateLocked(r) =>
              fxRates'[r].usd_to_pkr_rate = fxRates[r].usd_to_pkr_rate]_vars

----------------------------------------------------------------------------
(* Properties of all the writing handlers run one call at a time *)

(* The step is a call that throws *)
FailedCall ==
    \/ \E year \in Years, month \in Months :
           createPeriodError(year, month) # OK /\ createPeriod(year, month)
    \/ \E id \in PeriodIdInputs, locked_by \in UserIds :
           lockPeriodError(id, locked_by) # OK /\ lockPeriod(id, locked_by)
    \/ \E period_id \in PeriodIdInputs, created_by \in UserIds :
           /\ createJournalError(period_id, created_by) # OK
           /\ createJournal(period_id, created_by)
    \/ \E refs \in LineRefs :
           /\ addJournalLineError(LineInput(refs, NoAmounts)) # OK
           /\ addJournalLine(LineInput(refs, NoAmounts))
    \/ \E lineId \in LineIdInputs :
           deleteJournalLineError(lineId) # OK /\ deleteJournalLine(lineId)
    \/ \E id \in JournalIdInputs, posted_by \in UserIds :
           postJournalError(id, posted_by) # OK /\ postJournal(id, posted_by)
    \/ \E input \in CreateFxRateInputs :
           setFxRateError(input) # OK /\ setFxRate(input)
    \/ \E input \in UpdateFxRateInputs :
           lockFxRateError(input) # OK /\ lockFxRate(input)
    \/ \E input \in CapitalMovementInputs :
           createCapitalMovementError(input) # OK /\ createCapitalMovement(input)

(* A postJournal rejected for validation leaves the journal DRAFT and
   unposted; a lockPeriod rejected for DRAFT journals leaves the period
   OPEN *)
RejectedLeavesState ==
    /\ \A id \in JournalIdInputs, posted_by \in UserIds :
           /\ postJournalError(id, posted_by) = "Journal validation failed"
           /\ postJournal(id, posted_by)
           => /\ journals'[id].status = "DRAFT"
              /\ journals'[id].posted_at = Null
              /\ journals'[id].posted_by = Null
    /\ \A id \in PeriodIds, locked_by \in UserIds :
           /\ DraftJournalsOf(id) # {}
           /\ lockPeriodError(id, locked_by) # OK
           /\ lockPeriod(id, locked_by)
           => periods'[id].status = "OPEN"

(* C12: a call of a writing handler that fails leaves the whole store
   unchanged; a postJournal rejected for validation leaves the journal
   DRAFT with posted_at and posted_by null, and a lockPeriod rejected for
   DRAFT journals leaves the period OPEN. *)
C12_FailedCallLeavesStore ==
    [][vars' # vars
         => (store' # store => ~FailedCall) /\ RejectedLeavesState]_vars

(* an OPEN period whose DRAFT journal has a line and does not validate,
   beside a locked rate: postJournal, lockPeriod, setFxRate and lockFxRate
   each have a call that fails here *)
C12_Witness ==
    /\ \E j \in JournalIds :
           /\ journals[j].status = "DRAFT"
           /\ LinesOf(j) # {}
           /\ validateJournal(j) # <<>>
           /\ ~Locked(journals[j].period_id)
    /\ \E r \in RateIds : RateLocked(r)

----------------------------------------------------------------------------
(* Properties of the FX-rate handlers run concurrently *)

UniqueDates ==
    \A r \in RateIds, q \in RateIds : fxRates[r].date = fxRates[q].date => r = q

(* The update of a setFxRate call whose rate is still unlocked rewrites
   the value of that row and nothing else, and leaves it unlocked *)
SetUpdatesInPlace ==
    \A c \in Calls :
        /\ At(c, "setFxRate", "update")
        /\ calls'[c].op = "idle"
        /\ ~fxRates[calls[c].id].is_locked
        => /\ Len(fxRates') = Len(fxRates)
           /\ \A r \in RateIds :
                  /\ fxRates'[r].date = fxRates[r].date
                  /\ fxRates'[r].is_locked = fxRates[r].is_locked
                  /\ fxRates'[r].usd_to_pkr_rate =
                         IF r = calls[c].id
                           THEN ToNumeric4(calls[c].kept.usd_to_pkr_rate)
                         ELSE fxRates[r].usd_to_pkr_rate

(* C24: at most one FX rate exists per date in every reachable state, also
   when setFxRate calls for the same date interleave statement by
   statement, the store rejecting a second row of a date; a successful
   setFxRate on a date that has an unlocked rate updates that rate's value
   in place, keeps its id and leaves it unlocked. *)
C24_OneRatePerDate == [](UniqueDates) /\ [][SetUpdatesInPlace]_vars

(* a rate is stored for a day while a setFxRate call that found none for
   that day is about to insert, and another call is about to update an
   unlocked rate *)
C24_Witness ==
    \E c \in Calls, d \in Calls :
        /\ At(c, "setFxRate", "insert")
        /\ RatesOn(formatDateForDB(calls[c].kept.date)) # {}
        /\ At(d, "setFxRate", "update")
        /\ ~fxRates[calls[d].id].is_locked
        /\ fxRates[calls[d].id].usd_to_pkr_rate
               # ToNumeric4(calls[d].kept.usd_to_pkr_rate)

----------------------------------------------------------------------------
(* Properties of the period handlers run concurrently *)

(* C25: no two periods share the same (year, month) in any reachable
   state, also when two createPeriod calls for the same (year, month)
   interleave between the existence check and the insert. *)
C25_UniqueYearMonth ==
    \A p \in PeriodIds, q \in PeriodIds :
        periods[p].year = periods[q].year /\ periods[p].month = periods[q].month
        => p = q

----------------------------------------------------------------------------
(* Properties of getCurrentPeriod's results *)

OpenIn(e) == {p \in 1..Len(e.periods) : e.periods[p].status = "OPEN"}

MonthsSince0(row) == row.year * 12 + row.month

(* C26: getCurrentPeriod returns the OPEN period with the greatest
   (year, month), whatever LOCKED periods lie before or after it, and
   returns null exactly when no period is OPEN. *)
C26_CurrentPeriodIsLatestOpen ==
    \A i \in 1..Len(returned) :
        returned[i].op = "getCurrentPeriod"
        => IF OpenIn(returned[i]) = {}
             THEN returned[i].result = Null
           ELSE /\ returned[i].result \in OpenIn(returned[i])
                /\ \A q \in OpenIn(returned[i]) :
                       MonthsSince0(returned[i].periods[q])
                           <= MonthsSince0(returned[i].periods[returned[i].result])

(* getCurrentPeriod returned 2024-01 while 2023-12 was OPEN too, and
   returned a period while a later one was LOCKED *)
C26_Witness ==
    \E i \in 1..Len(returned), k \in 1..Len(returned) :
        LET e == returned[i]
            f == returned[k]
        IN  /\ e.op = "getCurrentPeriod" /\ f.op = "getCurrentPeriod"
            /\ e.result # Null /\ f.result # Null
            /\ e.periods[e.result].year = 2024
            /\ \E q \in OpenIn(e) : e.periods[q].month = 12
            /\ \E q \in 1..Len(f.periods) :
                   /\ f.periods[q].status = "LOCKED"
                   /\ MonthsSince0(f.periods[q])
                          > MonthsSince0(f.periods[f.result])

----------------------------------------------------------------------------
(* Properties of the capital movement handlers *)

(* The stored rates dated on or before a day, and the latest of them *)
RatesUpTo(dateStr) == {r \in RateIds : fxRates[r].date <= dateStr}

EffectiveOn(dateStr) ==
    {r \in RatesUpTo(dateStr) :
        \A q \in RatesUpTo(dateStr) : fxRates[q].date <= fxRates[r].date}

(* amount, in cents, times rate, in ten-thousandths, to the cent *)
TimesRate(amount, rate) == (amount * rate + 5000) \div 10000

(* A USD request fails for the lack of a rate exactly when none is dated
   on or before its transaction date *)
NoRateIffNoneDated ==
    \A input \in ConvertedMovementInputs :
        (createCapitalMovementError(input)
             = "No FX rate available for the transaction date")
        <=> /\ input.currency = "USD"
            /\ RatesUpTo(formatDateForDB(input.transaction_date)) = {}

(* What a step that stores a movement stores *)
MovementStored ==
    capitalMovements' # capitalMovements
    => /\ Len(capitalMovements') = Len(capitalMovements) + 1
       /\ SubSeq(capitalMovements', 1, Len(capitalMovements)) = capitalMovements
       /\ LET m == capitalMovements'[Len(capitalMovements')]
          IN  /\ m.journal_id = Null
              /\ m.currency = "PKR" => m.fx_rate = Null /\ m.amount_base = m.amount
              /\ m.currency = "USD"
                 => /\ \E r \in EffectiveOn(m.transaction_date) :
                           m.fx_rate = fxRates[r].usd_to_pkr_rate
                    /\ m.fx_rate # Null
                    /\ m.amount_base = TimesRate(m.amount, m.fx_rate)

(* C27: createCapitalMovement in USD stores fx_rate = the rate effective
   on or before transaction_date and amount_base = amount x that rate, and
   fails with 'No FX rate available', storing nothing, when no rate is
   dated on or before transaction_date; in PKR it stores fx_rate = null
   and amount_base = amount; every stored movement has journal_id null. *)
C27_MovementConversion == [](NoRateIffNoneDated) /\ [][MovementStored]_vars

----------------------------------------------------------------------------
(* Properties of validateJournal's results *)

ErrorCount(errors, kind) ==
    Cardinality({i \in 1..Len(errors) : errors[i].kind = kind})

TwoSided(l) == l.debit_amount > 0 /\ l.credit_amount > 0

NoSided(l) == l.debit_amount = 0 /\ l.credit_amount = 0

(* The errors the rules give for a journal's lines, totals in cents *)
ErrorsAsStated(e) ==
    IF e.lines = {}
      THEN e.errors = <<Err("Journal has no lines", <<>>)>>
    ELSE /\ ErrorCount(e.errors, "Journal has no lines") = 0
         /\ ErrorCount(e.errors, "both debit and credit")
                = Cardinality({l \in e.lines : TwoSided(l)})
         /\ ErrorCount(e.errors, "neither debit nor credit")
                = Cardinality({l \in e.lines : NoSided(l)})
         /\ ErrorCount(e.errors, "debits do not equal credits")
                = IF Abs(SumCents(e.lines, "debit_amount")
                         - SumCents(e.lines, "credit_amount")) > 1
                    THEN 1 ELSE 0
         /\ ErrorCount(e.errors, "base debits do not equal base credits")
                = IF Abs(SumCents(e.lines, "debit_amount_base")
                         - SumCents(e.lines, "credit_amount_base")) > 1
                    THEN 1 ELSE 0

(* C19: validateJournal returns isValid = true exactly when errors is
   empty; errors is the single no-lines error for a journal without lines,
   and otherwise one error per line with both debit and credit above zero,
   one per line with both zero, one when the transaction-currency totals
   differ by more than 0.01 and one when the base-currency totals differ by
   more than 0.01, all accumulated. *)
C19_ValidateJournalErrors ==
    \A i \in 1..Len(returned) :
        /\ returned[i].isValid = (returned[i].errors = <<>>)
        /\ ErrorsAsStated(returned[i])

(* A validateJournal step writes no table *)
ValidateReadOnly ==
    returned' # returned
    => UNCHANGED <<periods, journals, journalLines, lineSeq, fxRates,
                   capitalMovements>>

(* Calls on the same journal holding the same lines return the same *)
ValidateSameResult ==
    \A i \in 1..Len(returned), k \in 1..Len(returned) :
        returned[i].journal_id = returned[k].journal_id
        /\ returned[i].lines = returned[k].lines
        => /\ returned[i].isValid = returned[k].isValid
           /\ returned[i].errors = returned[k].errors

(* C20: validateJournal is read-only and idempotent: it modifies no
   journal, line or period, and two calls on the same journal with no
   mutation in between return the same isValid and the same errors. *)
C20_ValidateJournalIdempotent ==
    [](ValidateSameResult) /\ [][ValidateReadOnly]_vars

(* two calls in a row on a journal of two lines, both reporting errors *)
C20_Witness ==
    /\ Len(returned) = 2
    /\ returned[1].journal_id = returned[2].journal_id
    /\ returned[1].lines = journalLines
    /\ returned[2].lines = journalLines
    /\ Cardinality(journalLines) = 2
    /\ returned[2].errors # <<>>

----------------------------------------------------------------------------
(* Properties of validatePeriodClose's results *)

(* C21: for an existing period validatePeriodClose collects every error
   that applies: 'already locked' when the period is LOCKED and,
   independently, one error naming n when the period has n > 0 DRAFT
   journals, so a LOCKED period with DRAFT journals yields both; only
   period-not-found short-circuits, and canClose is true exactly when no
   error was collected. *)
C21_CloseErrorsCollected ==
    \A i \in 1..Len(returned) :
        LET e == returned[i]
        IN  /\ e.canClose = (e.errors = <<>>)
            /\ IF e.status = "none"
                 THEN e.errors = <<Err("Period not found", <<>>)>>
               ELSE /\ ErrorCount(e.errors, "Period not found") = 0
                    /\ ErrorCount(e.errors, "Period is already locked")
                           = IF e.status = "LOCKED" THEN 1 ELSE 0
                    /\ ErrorCount(e.errors, "draft journals")
                           = IF e.drafts > 0 THEN 1 ELSE 0
                    /\ \A k \in 1..Len(e.errors) :
                           e.errors[k].kind = "draft journals"
                           => e.errors[k].args = <<e.drafts>>

----------------------------------------------------------------------------
(* Properties of the FX-rate queries *)

(* The rates of a result's snapshot dated on or before the day of date *)
OnOrBefore(e) ==
    {r \in 1..Len(e.rates) : e.rates[r].date <= formatDateForDB(e.date)}

(* The latest of them *)
Greatest(e) ==
    {r \in OnOrBefore(e) :
        \A q \in OnOrBefore(e) : e.rates[q].date <= e.rates[r].date}

(* C22: for every set of stored rates and every date d, getFxRate(d)
   returns the stored rate with the greatest date <= d (the rate dated d
   when there is one) and returns null exactly when no stored rate is dated
   <= d; a rate dated after d is never returned. *)
C22_GetFxRateLatestOnOrBefore ==
    \A i \in 1..Len(returned) :
        returned[i].op = "getFxRate"
        => IF OnOrBefore(returned[i]) = {}
             THEN returned[i].result = Null
           ELSE returned[i].result \in Greatest(returned[i])

(* rates stored for days 0 and 2, and getFxRate of day 1 returned the
   rate of day 0 *)
C22_Witness ==
    \E i \in 1..Len(returned) :
        LET e == returned[i]
        IN  /\ e.op = "getFxRate"
            /\ formatDateForDB(e.date) = 1
            /\ Len(e.rates) = 2
            /\ \E r \in 1..2 : e.rates[r].date = 2
            /\ e.result # Null
            /\ e.rates[e.result].date = 0

(* C23: getCurrentFxRate returns the value of the stored rate with the
   greatest date <= today, never that of a rate dated after today, and
   fails with 'No FX rate available' exactly when no stored rate is dated
   <= today, also when only later rates exist; its result depends only on
   the stored rates and today. *)
C23_GetCurrentFxRate ==
    \A i \in 1..Len(returned) :
        returned[i].op = "getCurrentFxRate"
        => /\ IF OnOrBefore(returned[i]) = {}
                THEN returned[i].result =
                         [value |-> Null, error |-> "No FX rate available"]
              ELSE /\ returned[i].result.error = OK
                   /\ \E r \in Greatest(returned[i]) :
                          returned[i].result.value
                              = returned[i].rates[r].usd_to_pkr_rate
           /\ \A k \in 1..Len(returned) :
                  /\ returned[k].op = "getCurrentFxRate"
                  /\ returned[k].rates = returned[i].rates
                  /\ formatDateForDB(returned[k].date)
                         = formatDateForDB(returned[i].date)
                  => returned[k].result = returned[i].result

(* with rates stored for days 0 and 2, getCurrentFxRate on day 1 returned
   the value of day 0, and with only a later rate stored it failed *)
C23_Witness ==
    \E i \in 1..Len(returned), k \in 1..Len(returned) :
        LET e == returned[i]
            f == returned[k]
        IN  /\ e.op = "getCurrentFxRate" /\ f.op = "getCurrentFxRate"
            /\ Len(f.rates) = 1
            /\ f.rates[1].date > formatDateForDB(f.date)
            /\ f.result.error = "No FX rate available"
            /\ formatDateForDB(e.date) = 1
            /\ Len(e.rates) = 2
            /\ \E r \in 1..2, q \in 1..2 :
                   /\ e.rates[r].date = 2
                   /\ e.rates[q].date = 0
                   /\ e.rates[r].usd_to_pkr_rate # e.rates[q].usd_to_pkr_rate
                   /\ e.result.value = e.rates[q].usd_to_pkr_rate

----------------------------------------------------------------------------
(* Properties of getPartnerCapitalBalance's results *)

(* The double nearest to a whole number of cents of either sign *)
DoubleOfCents(c) == IF c >= 0 THEN parseFloat(c) ELSE F64Neg(parseFloat(-c))

(* The signed sum, in cents, of a partner's movements of a currency dated
   up to the day of asOfDate, in a result's snapshot *)
RECURSIVE SignedCents(_, _, _)
SignedCents(e, ids, currency) ==
    IF ids = {} THEN 0
    ELSE LET m == CHOOSE m \in ids : TRUE
             row == e.movements[m]
             counts == /\ row.partner_id = e.partner_id
                       /\ row.currency = currency
                       /\ e.asOfDate # NoDate
                          => row.transaction_date <= formatDateForDB(e.asOfDate)
             signed == IF row.movement_type = "CONTRIBUTION"
                         THEN row.amount ELSE -row.amount
         IN  (IF counts THEN signed ELSE 0)
             + SignedCents(e, ids \ {m}, currency)

UsdCents(e) == SignedCents(e, 1..Len(e.movements), "USD")

PkrCents(e) == SignedCents(e, 1..Len(e.movements), "PKR")

(* C28: getPartnerCapitalBalance returns usdBalance and pkrBalance equal
   to the signed sums (CONTRIBUTION +amount, DRAW -amount) of the
   partner's USD and PKR movements dated up to asOfDate (all of them when
   asOfDate is left out), and totalBalancePkr = pkrBalance + usdBalance x r
   with r the rate effective on or before asOfDate, or today; movements of
   other partners never contribute. *)
C28_BalanceIsSignedSum ==
    \A i \in 1..Len(returned) :
        LET e == returned[i]
        IN  e.op = "getPartnerCapitalBalance"
            => /\ e.result.usdBalance = DoubleOfCents(UsdCents(e))
               /\ e.result.pkrBalance = DoubleOfCents(PkrCents(e))
               /\ e.result.totalBalancePkr.pkr = DoubleOfCents(PkrCents(e))
               /\ UsdCents(e) # 0 /\ OnOrBefore(e) # {}
                  => /\ e.result.totalBalancePkr.usd = DoubleOfCents(UsdCents(e))
                     /\ \E r \in Greatest(e) :
                            e.result.totalBalancePkr.rate
                                = e.rates[r].usd_to_pkr_rate

(* C29: when a conversion is required and no FX rate is available the
   operation fails and the failure reaches the caller:
   getPartnerCapitalBalance fails when the partner's USD subtotal is not
   zero and no rate is dated on or before the lookup date, as
   createCapitalMovement in USD does. *)
C29_MissingRateFails ==
    /\ \A i \in 1..Len(returned) :
           /\ returned[i].op = "getPartnerCapitalBalance"
           /\ UsdCents(returned[i]) # 0
           /\ OnOrBefore(returned[i]) = {}
           => returned[i].result.error # OK
    /\ \A input \in BalanceMovementInputs :
           /\ input.currency = "USD"
           /\ RatesUpTo(formatDateForDB(input.transaction_date)) = {}
           => createCapitalMovementError(input) # OK

----------------------------------------------------------------------------
(* Properties of the arithmetic *)

(* C30: the monetary sums and products are computed in fixed-point decimal
   arithmetic and never pass through binary floating point, so that no
   drift turns a difference of at most 0.01 between the debit and credit
   totals into a reported imbalance. *)
C30_NoDriftImbalance ==
    \A i \in 1..Len(returned) :
        LET e == returned[i]
        IN  /\ Abs(SumCents(e.lines, "debit_amount")
                   - SumCents(e.lines, "credit_amount")) <= 1
               => ErrorCount(e.errors, "debits do not equal credits") = 0
            /\ Abs(SumCents(e.lines, "debit_amount_base")
                   - SumCents(e.lines, "credit_amount_base")) <= 1
               => ErrorCount(e.errors, "base debits do not equal base credits") = 0

----------------------------------------------------------------------------
(* Properties of the error postJournal reports *)

(* The failure conditions of a postJournal request, in the order
   journal-not-found, already-posted, locked-period, validation-failed,
   user-not-found *)
PostFailures(id, posted_by) ==
    <<[holds |-> id \notin JournalIds, message |-> "Journal not found"],
      [holds |-> Posted(id), message |-> "Journal already posted"],
      [holds |-> id \in JournalIds /\ Locked(journals[id].period_id),
       message |-> "Cannot post journal in locked period"],
      [holds |-> id \in JournalIds /\ ~validateJournalResult(id).isValid,
       message |-> "Journal validation failed"],
      [holds |-> posted_by \notin Users, message |-> "User not found"]>>

(* C31: when several failure conditions of postJournal hold at once the
   error reported is the first in the order journal-not-found,
   already-posted, locked-period, validation-failed, user-not-found, and
   validation-failed carries the full error list. *)
C31_FirstFailureReported ==
    \A id \in JournalIdInputs, posted_by \in UserIds :
        LET failures == PostFailures(id, posted_by)
            thrown == postJournalThrown(id, posted_by)
        IN  /\ \A n \in 1..Len(failures) :
                   /\ failures[n].holds
                   /\ \A k \in 1..(n - 1) : ~failures[k].holds
                   => thrown.message = failures[n].message
            /\ thrown.message = "Journal validation failed"
               => thrown.errors = validateJournalResult(id).errors

(* a POSTED journal and a DRAFT journal that does not validate, both in a
   LOCKED period *)
C31_Witness ==
    \E j \in JournalIds, k \in JournalIds :
        /\ Posted(j) /\ Locked(journals[j].period_id)
        /\ journals[k].status = "DRAFT" /\ Locked(journals[k].period_id)
        /\ ~validateJournalResult(k).isValid
        /\ postJournalThrown(k, 2).message = "Cannot post journal in locked period"
        /\ postJournalThrown(j, 2).message = "Journal already posted"

----------------------------------------------------------------------------
(* Properties of the balance check *)

DebitCreditGap(e, debit, credit) ==
    Abs(SumCents(e.lines, debit) - SumCents(e.lines, credit))

(* C32: with amounts in whole cents the balance check is a strict
   comparison against one cent: a journal whose debits and credits differ
   by exactly 0.01, in transaction currency or in base currency, validates,
   a journal whose totals differ by 0.02 or more is rejected, and the two
   currencies are checked independently of each other. *)
C32_StrictOneCentTolerance ==
    \A i \in 1..Len(returned) :
        LET e == returned[i]
        IN  e.lines # {}
            => /\ (ErrorCount(e.errors, "debits do not equal credits") = 0)
                  <=> DebitCreditGap(e, "debit_amount", "credit_amount") <= 1
               /\ (ErrorCount(e.errors, "base debits do not equal base credits") = 0)
                  <=> DebitCreditGap(e, "debit_amount_base", "credit_amount_base") <= 1
               /\ e.isValid
                  <=> /\ \A l \in e.lines : OneSided(l)
                      /\ DebitCreditGap(e, "debit_amount", "credit_amount") <= 1
                      /\ DebitCreditGap(e, "debit_amount_base", "credit_amount_base") <= 1

----------------------------------------------------------------------------
(* Properties of the handlers' own rate query *)

(* The number getFxRate returns for a date, Null for null *)
RateOfGetFxRate(date) ==
    IF getFxRate(date) = Null THEN Null
    ELSE fxRates[getFxRate(date)].usd_to_pkr_rate

UsdMovementInputs == {input \in ConvertedMovementInputs : input.currency = "USD"}

(* C33: on every store and for every date, the rate createCapitalMovement
   (USD) and getPartnerCapitalBalance read with their own 'latest rate with
   date <= d' query is the rate getFxRate returns for that date: the query
   selects the row getFxRate returns, the movement fails for want of a rate
   exactly when getFxRate returns null and otherwise takes getFxRate's
   number, and so does the balance. *)
C33_InlineQueryAgreesWithGetFxRate ==
    /\ \A date \in DateInputs :
           LatestRateOn(formatDateForDB(date)) =
               IF getFxRate(date) = Null THEN {} ELSE {getFxRate(date)}
    /\ \A input \in UsdMovementInputs :
           /\ (createCapitalMovementError(input)
                   = "No FX rate available for the transaction date")
              <=> getFxRate(input.transaction_date) = Null
           /\ getFxRate(input.transaction_date) # Null
              => NewCapitalMovement(input).fx_rate
                     = RateOfGetFxRate(input.transaction_date)
    /\ \A partnerId \in Partners, asOfDate \in DateInputs :
           LET balance == getPartnerCapitalBalance(partnerId, asOfDate, asOfDate)
           IN  balance.usdBalance # <<0, 0>>
               => balance.totalBalancePkr.rate = RateOfGetFxRate(asOfDate)

(* Two rates of different value are stored; a USD movement dated between
   them carries the earlier one, getFxRate finds the later one by exact
   match, and the partner's USD balance is not zero *)
C33_Witness ==
    \E r, q \in RateIds, m \in MovementIds :
        /\ fxRates[r].date < capitalMovements[m].transaction_date
        /\ capitalMovements[m].transaction_date < fxRates[q].date
        /\ fxRates[r].usd_to_pkr_rate # fxRates[q].usd_to_pkr_rate
        /\ capitalMovements[m].currency = "USD"
        /\ capitalMovements[m].fx_rate = fxRates[r].usd_to_pkr_rate
        /\ getFxRate(2 * capitalMovements[m].transaction_date) = r
        /\ getFxRate(2 * fxRates[q].date) = q
        /\ getPartnerCapitalBalance(capitalMovements[m].partner_id,
                                    2 * fxRates[q].date, 0).usdBalance # <<0, 0>>

----------------------------------------------------------------------------
(* Properties of the stored capital movements *)

(* C34: capital movements are append-only: no step of any handler removes a
   stored movement or changes its amount, currency, fx_rate, amount_base or
   journal_id; a setFxRate or lockFxRate after the movement's creation
   leaves the movement as it was stored. *)
C34_MovementsAppendOnly ==
    [][/\ Len(capitalMovements') >= Len(capitalMovements)
       /\ \A m \in MovementIds : capitalMovements'[m] = capitalMovements[m]]_vars

(* A USD movement is stored with the rate of its creation, and the rate now
   stored for its date has another value and is locked *)
C34_Witness ==
    \E m \in MovementIds, r \in RateIds :
        /\ capitalMovements[m].currency = "USD"
        /\ fxRates[r].date = capitalMovements[m].transaction_date
        /\ fxRates[r].usd_to_pkr_rate # capitalMovements[m].fx_rate
        /\ fxRates[r].is_locked
        /\ capitalMovements[m].fx_rate # Null

----------------------------------------------------------------------------
(* Properties of the posting and locking stamps *)

(* C35: in every state the handlers reach, a journal is POSTED exactly when
   its posted_by and posted_at are both non-null, and posted_by is then an
   existing user; a period is LOCKED exactly when its locked_by and
   locked_at are both non-null, and locked_by is then an existing user. *)
C35_StatusMatchesStamps ==
    /\ \A j \in JournalIds :
           /\ journals[j].status = "POSTED"
              <=> (journals[j].posted_by # Null /\ journals[j].posted_at # Null)
           /\ journals[j].status # "POSTED"
              => (journals[j].posted_by = Null /\ journals[j].posted_at = Null)
           /\ journals[j].status = "POSTED" => journals[j].posted_by \in Users
    /\ \A p \in PeriodIds :
           /\ periods[p].status = "LOCKED"
              <=> (periods[p].locked_by # Null /\ periods[p].locked_at # Null)
           /\ periods[p].status # "LOCKED"
              => (periods[p].locked_by = Null /\ periods[p].locked_at = Null)
           /\ periods[p].status = "LOCKED" => periods[p].locked_by \in Users

(* A journal posted by a user and a DRAFT journal without stamps are stored
   in a period locked by a user *)
C35_Witness ==
    \E j, k \in JournalIds, p \in PeriodIds :
        /\ journals[j].status = "POSTED" /\ journals[j].posted_by \in Users
        /\ journals[j].posted_at # Null
        /\ journals[k].status = "DRAFT" /\ journals[k].posted_by = Null
        /\ periods[p].status = "LOCKED" /\ periods[p].locked_by \in Users
        /\ periods[p].locked_at # Null
        /\ journals[j].period_id = p /\ journals[k].period_id = p

----------------------------------------------------------------------------
(* Properties of validateJournal on an id of no journal *)

NoLinesResult ==
    [isValid |-> FALSE, errors |-> <<Err("Journal has no lines", <<>>)>>]

(* C36: validateJournal called with an id that belongs to no journal reports
   no not-found error: it returns isValid = false with the single error
   'Journal has no lines', the result it returns for an existing journal
   without lines; postJournal tells the two apart, throwing 'Journal not
   found' for the one and 'Journal validation failed' with that error for
   the other. *)
C36_MissingJournalHasNoLines ==
    /\ \A i \in 1..Len(returned) :
           LET e == returned[i]
           IN  (e.journal_id \notin JournalIds \/ e.lines = {})
               => /\ e.isValid = NoLinesResult.isValid
                  /\ e.errors = NoLinesResult.errors
    /\ \A id \in JournalIdInputs, posted_by \in UserIds :
           /\ id \notin JournalIds
              => /\ validateJournalResult(id) = NoLinesResult
                 /\ postJournalThrown(id, posted_by).message = "Journal not found"
           /\ (id \in JournalIds /\ LinesOf(id) = {})
              => /\ validateJournalResult(id) = NoLinesResult
                 /\ postJournalThrown(id, posted_by).message
                        \in {"Journal already posted",
                             "Cannot post journal in locked period",
                             "Journal validation failed"}
                 /\ (journals[id].status = "DRAFT"
                       /\ ~Locked(journals[id].period_id))
                    => postJournalThrown(id, posted_by)
                           = [message |-> "Journal validation failed",
                              errors |-> NoLinesResult.errors]

(* validateJournal has returned for an id of no journal and for a stored
   journal without lines *)
C36_Witness ==
    \E i, k \in 1..Len(returned) :
        /\ returned[i].journal_id \notin JournalIds
        /\ returned[k].journal_id \in JournalIds
        /\ returned[k].lines = {}
        /\ returned[i].errors = returned[k].errors
        /\ postJournalThrown(returned[i].journal_id, 1).message
               # postJournalThrown(returned[k].journal_id, 1).message

----------------------------------------------------------------------------
(* Properties of the base-currency amounts of posted lines *)

BaseOnSameSide(l) ==
    /\ l.debit_amount_base > 0 => l.debit_amount > 0
    /\ l.credit_amount_base > 0 => l.credit_amount > 0
    /\ ~(l.debit_amount_base > 0 /\ l.credit_amount_base > 0)

(* C37: in every POSTED journal each line's base-currency amounts sit on the
   side of its transaction-currency amounts: debit_amount_base is above zero
   only if debit_amount is, credit_amount_base only if credit_amount is, and
   no line has both base amounts above zero. *)
C37_BaseAmountsOnSameSide ==
    \A j \in JournalIds :
        Posted(j) => \A l \in LinesOf(j) : BaseOnSameSide(l)

====
